---- MODULE Spec2Model ----
(***************************************************************************)
(* Model of the block extractor of codebase_server.py: the language-style  *)
(* classifier detect_language, the two block finders find_brace_block and  *)
(* find_indentation_block, and the step of the search loop that applies    *)
(* them to a matching line; and of the tool codebase_browser around it:   *)
(* the in-memory chunk store, the file and edit operations on the codebase *)
(* directory and the loop of the search over the files of the walk.        *)
(*                                                                         *)
(* A line is a sequence of one-character strings, as readlines() returns   *)
(* it (terminator included); a file is a sequence of lines; a file name is *)
(* a sequence of one-character strings.  Line indices are zero-based as in *)
(* the source, so line i of the source is lines[i + 1] here.               *)
(***************************************************************************)
EXTENDS Integers, Sequences, FiniteSets

VARIABLES filename, lines, match_line_index, lang_type, start_idx, end_idx, pc

\* the codebase directory, the chunk store _memory_chunks, the directory
\* Backups/Chunks and the archive files written into it
VARIABLES fs, memory_chunks, chunks_dir, chunk_files

\* the directory Backups and the copies of the codebase directory that
\* backup_create has made in it
VARIABLES backup_root, backups

\* the last call of codebase_browser, what it returned, the number of calls
VARIABLES call, result, calls

\* the search: the listing os.walk gives, the positions of its three loops
\* and what it has gathered
VARIABLES walk, dir_idx, file_idx, line_index, all_blocks, total_matches,
          files_checked, files_with_matches, file_has_matches

extractVars == <<filename, lines, match_line_index, lang_type, start_idx, end_idx>>
storeVars == <<fs, memory_chunks, chunks_dir, chunk_files, backup_root, backups>>
callVars == <<call, result, calls>>
searchVars == <<walk, dir_idx, file_idx, line_index, all_blocks, total_matches,
                files_checked, files_with_matches, file_has_matches>>

vars == <<extractVars, storeVars, callVars, searchVars, pc>>

(***************************************************************************)
(* Bounds of the model.                                                    *)
(***************************************************************************)
\* longest file (in lines) handed to the block finders
MaxLines == 5
\* longest file (in lines) in the classifier's specification
MaxLangLines == 2
\* longest sequence of calls of the chunk operations
MaxCalls == 2
\* longest sequence of calls of a session with backups
MaxSessionCalls == 4
\* longest file (in lines) of the codebase directory of the file operations
MaxFileLines == 2
\* longest file (in lines) of the search, largest max_results and largest
\* max_display_results of its options
MaxSearchLines == 2
MaxResults == 3
MaxDisplay == 2

Max(a, b) == IF a >= b THEN a ELSE b
Min(a, b) == IF a <= b THEN a ELSE b

SeqsUpTo(S, n) == UNION {[1..k -> S] : k \in 1..n}

(***************************************************************************)
(* Python string primitives, on sequences of characters.                   *)
(***************************************************************************)
IsSpace(c) == c \in {" ", "\n", "\t", "\r"}

RECURSIVE lstrip(_)
lstrip(s) ==
    IF s = <<>> THEN s
    ELSE IF IsSpace(Head(s)) THEN lstrip(Tail(s)) ELSE s

RECURSIVE rstrip(_)
rstrip(s) ==
    IF s = <<>> THEN s
    ELSE IF IsSpace(s[Len(s)]) THEN rstrip(SubSeq(s, 1, Len(s) - 1)) ELSE s

strip(s) == rstrip(lstrip(s))

count(s, c) == Cardinality({k \in 1..Len(s) : s[k] = c})

contains(sub, s) ==
    \E k \in 0..(Len(s) - Len(sub)) : SubSeq(s, k + 1, k + Len(sub)) = sub

endswith(s, c) == Len(s) > 0 /\ s[Len(s)] = c

LowerOf(c) ==
    CASE c = "P" -> "p"
      [] c = "Y" -> "y"
      [] c = "M" -> "m"
      [] c = "L" -> "l"
      [] c = "A" -> "a"
      [] c = "J" -> "j"
      [] c = "S" -> "s"
      [] c = "X" -> "x"
      [] OTHER -> c

lower(s) == [k \in 1..Len(s) |-> LowerOf(s[k])]

\* index (zero-based) of the last "." of p, -1 when there is none
rfind_dot(p) ==
    LET dots == {k \in 1..Len(p) : p[k] = "."}
    IN  IF dots = {} THEN -1
        ELSE (CHOOSE k \in dots : \A d \in dots : d <= k) - 1

\* os.path.splitext(p)[1] for a name without directory separator: the text
\* from the last dot on, unless every character before that dot is a dot
splitext_ext(p) ==
    LET dotIndex == rfind_dot(p)
    IN  IF dotIndex > -1 /\ (\E k \in 0..(dotIndex - 1) : p[k + 1] # ".")
        THEN SubSeq(p, dotIndex + 1, Len(p))
        ELSE <<>>

(***************************************************************************)
(* detect_language                                                         *)
(***************************************************************************)
IndentationExts ==
    { <<".", "p", "y">>, <<".", "p", "y", "x">>, <<".", "p", "y", "w">>,
      <<".", "y", "m", "l">>, <<".", "y", "a", "m", "l">> }

\* variant: the extension is compared case-sensitively
detect_language_cased(name) ==
    LET ext == splitext_ext(name)
    IN  IF ext \in IndentationExts THEN "indentation" ELSE "braces"

detect_language(name) ==
    LET ext == splitext_ext(lower(name))
    IN  IF ext \in IndentationExts THEN "indentation" ELSE "braces"

(***************************************************************************)
(* find_brace_block                                                        *)
(***************************************************************************)
DefaultStart(m) == Max(0, m - 3)

DefaultEnd(ls, m) == Min(Len(ls) - 1, m + 3)

KwFunction == <<"f", "u", "n", "c", "t", "i", "o", "n", " ">>
KwClass == <<"c", "l", "a", "s", "s", " ">>
KwDef == <<"d", "e", "f", " ">>
KwAssignFunction == <<"=", " ", "f", "u", "n", "c", "t", "i", "o", "n">>

\* variant: 'class ' is not a declaration keyword
IsDeclarationNoClass(line) ==
    \/ contains(KwFunction, line)
    \/ contains(KwDef, line)
    \/ contains(KwAssignFunction, line)

IsDeclaration(line) ==
    \/ contains(KwFunction, line)
    \/ contains(KwClass, line)
    \/ contains(KwDef, line)
    \/ contains(KwAssignFunction, line)

\* variant: balanced totals already open a block
BraceOpensOnBalance(open_braces, close_braces) == open_braces >= close_braces

BraceOpens(open_braces, close_braces) == open_braces > close_braces

\* variant: balanced totals already close the block
BraceClosesOnBalance(open_braces, close_braces) == close_braces >= open_braces

BraceCloses(open_braces, close_braces) == close_braces > open_braces

\* variant: the forward loop runs whether or not an opening was found
SearchForwardAlways(found_opening) == TRUE

\* the guard of the forward loop
SearchForward(found_opening) == found_opening

\* the backward loop from line i, the totals being those of the lines
\* already scanned; the line found, or -1 when the loop runs out
RECURSIVE BraceBackward(_, _, _, _)
BraceBackward(ls, i, open_braces, close_braces) ==
    IF i < 0 THEN -1
    ELSE LET line == ls[i + 1]
             ob == open_braces + count(line, "{")
             cb == close_braces + count(line, "}")
         IN  IF IsDeclaration(line) THEN i
             ELSE IF BraceOpens(ob, cb) THEN i
             ELSE BraceBackward(ls, i - 1, ob, cb)

\* the forward loop from line i; the line found, or -1
RECURSIVE BraceForward(_, _, _, _)
BraceForward(ls, i, open_braces, close_braces) ==
    IF i >= Len(ls) THEN -1
    ELSE LET line == ls[i + 1]
             ob == open_braces + count(line, "{")
             cb == close_braces + count(line, "}")
         IN  IF BraceCloses(ob, cb) THEN i
             ELSE BraceForward(ls, i + 1, ob, cb)

find_brace_block(ls, m) ==
    LET current_line == ls[m + 1]
        open_count_current == count(current_line, "{")
        close_count_current == count(current_line, "}")
        back == BraceBackward(ls, m, 0, 0)
        found_opening == back # -1
        start_line == IF found_opening THEN back ELSE DefaultStart(m)
        fwd == IF SearchForward(found_opening)
               THEN BraceForward(ls, m + 1, open_count_current, close_count_current)
               ELSE -1
        end_line == IF fwd # -1 THEN fwd ELSE DefaultEnd(ls, m)
    IN  <<start_line, end_line>>

(***************************************************************************)
(* find_indentation_block                                                  *)
(***************************************************************************)
Indentation(line) == Len(line) - Len(lstrip(line))

IsBlank(line) == strip(line) = <<>>

EndsWithColon(line) == endswith(rstrip(line), ":")

\* variant: a line of the same indentation counts as an outer line
ShallowerOrEqual(indent, match_indent) == indent <= match_indent

Shallower(indent, match_indent) == indent < match_indent

ProbeStop(i) == Max(0, i - 5)

\* the inner loop over range(i, max(0, i-5), -1), at position j
RECURSIVE IndentProbe(_, _, _)
IndentProbe(ls, j, stop) ==
    IF j <= stop THEN -1
    ELSE IF EndsWithColon(ls[j + 1]) THEN j
    ELSE IndentProbe(ls, j - 1, stop)

\* the backward loop from line i; the start line found, or -1
RECURSIVE IndentBackward(_, _, _)
IndentBackward(ls, i, match_indent) ==
    IF i < 0 THEN -1
    ELSE LET line == ls[i + 1]
             indent == Indentation(line)
         IN  IF IsBlank(line) THEN IndentBackward(ls, i - 1, match_indent)
             ELSE IF Shallower(indent, match_indent) /\ EndsWithColon(line) THEN i
             ELSE IF Shallower(indent, match_indent) /\ i > 0
                  THEN IndentProbe(ls, i, ProbeStop(i))
             ELSE IndentBackward(ls, i - 1, match_indent)

\* variant: only a strictly smaller indentation ends the block
BlockEndsStrict(indent, block_indent) == indent < block_indent

BlockEnds(indent, block_indent) == indent <= block_indent

\* variant: the block ends two lines before the line that stops the scan
IndentEndBeforeTwo(i) == i - 2

IndentEndBefore(i) == i - 1

\* the forward loop from line i; the end line found, or -1
RECURSIVE IndentForward(_, _, _)
IndentForward(ls, i, block_indent) ==
    IF i >= Len(ls) THEN -1
    ELSE LET line == ls[i + 1]
         IN  IF IsBlank(line) THEN IndentForward(ls, i + 1, block_indent)
             ELSE IF BlockEnds(Indentation(line), block_indent)
                  THEN IndentEndBefore(i)
             ELSE IndentForward(ls, i + 1, block_indent)

IndentStart(ls, m) ==
    LET back == IndentBackward(ls, m, Indentation(ls[m + 1]))
    IN  IF back # -1 THEN back ELSE DefaultStart(m)

BlockIndent(ls, start_line) == Indentation(ls[start_line + 1])

find_indentation_block(ls, m) ==
    LET start_line == IndentStart(ls, m)
        block_indent == BlockIndent(ls, start_line)
        fwd == IndentForward(ls, m + 1, block_indent)
        end_line == IF fwd # -1 THEN fwd ELSE DefaultEnd(ls, m)
    IN  <<start_line, end_line>>

(***************************************************************************)
(* The codebase directory: a tree of directories and files.  A path is the *)
(* sequence of its components, the root is <<>>; a tree gives every path a *)
(* node, and the parent of a node that is not absent is a directory.       *)
(***************************************************************************)
\* the value None of an absent parameter or option
None == <<"None">>

\* dict.get(k, default)
Get(options, k, default) == IF k \in DOMAIN options THEN options[k] ELSE default

AllPaths ==
    { <<"a">>, <<"b">>,
      <<"a", "a">>, <<"a", "b">>, <<"b", "a">>, <<"b", "b">> }

AbsentNode == [kind |-> "absent", content |-> <<>>]
DirNode == [kind |-> "dir", content |-> <<>>]
FileNode(c) == [kind |-> "file", content |-> c]

Parent(p) == SubSeq(p, 1, Len(p) - 1)

Prefixes(p) == {SubSeq(p, 1, k) : k \in 1..Len(p)}

\* Path.exists(), Path.is_dir(), Path.is_file()
Exists(t, p) == p = <<>> \/ (p \in DOMAIN t /\ t[p].kind # "absent")
IsDir(t, p) == p = <<>> \/ (p \in DOMAIN t /\ t[p].kind = "dir")
IsFile(t, p) == p \in DOMAIN t /\ t[p].kind = "file"

WellFormed(t) ==
    \A p \in DOMAIN t : t[p].kind # "absent" => IsDir(t, Parent(p))

EmptyTree == [p \in AllPaths |-> AbsentNode]

\* Path.mkdir(parents=True, exist_ok=True): fails on a component that is a
\* file, creates the missing components otherwise
mkdir_parents(t, p) ==
    [ ok |-> \A q \in Prefixes(p) : ~IsFile(t, q),
      tree |-> IF \A q \in Prefixes(p) : ~IsFile(t, q)
               THEN [q \in DOMAIN t |-> IF q \in Prefixes(p) THEN DirNode ELSE t[q]]
               ELSE t ]

\* open(p, mode) and write(content), mode 'w' or 'a': fails on a directory
\* and under a parent that is not a directory
open_write(t, p, mode, content) ==
    LET ok == p # <<>> /\ IsDir(t, Parent(p)) /\ ~IsDir(t, p)
        old == IF mode = "a" /\ IsFile(t, p) THEN t[p].content ELSE <<>>
    IN  [ ok |-> ok,
          tree |-> IF ok THEN [t EXCEPT ![p] = FileNode(old \o content)] ELSE t ]

(***************************************************************************)
(* _handle_chunk_operations                                                *)
(***************************************************************************)
ChunkNames == {"a", "b"}

\* the name made from the timestamp when no chunk_name is given
TimestampName == "chunk_ts"

ChunkContents == { <<"x">>, <<"y">> }

NoChunks == [n \in {} |-> <<>>]

\* no backup in Backups
NoBackups == [n \in {} |-> <<>>]

\* d[name] = content
Store(d, name, content) ==
    [n \in DOMAIN d \cup {name} |-> IF n = name THEN content ELSE d[n]]

\* a join that would write each chunk once, however often it is listed
RECURSIVE Joined_once(_, _)
Joined_once(d, names) ==
    IF names = <<>> THEN <<>>
    ELSE IF \E k \in 2..Len(names) : names[k] = Head(names)
    THEN Joined_once(d, Tail(names))
    ELSE d[Head(names)] \o Joined_once(d, Tail(names))

\* "".join(d[name] for name in names)
RECURSIVE Joined(_, _)
Joined(d, names) ==
    IF names = <<>> THEN <<>> ELSE d[Head(names)] \o Joined(d, Tail(names))

Payload(kind) == [kind |-> kind]

\* what an operation leaves behind: the payload returned and the state
Outcome(r, chunks, tree, files) ==
    [result |-> r, memory_chunks |-> chunks, fs |-> tree, chunk_files |-> files]

\* the truth value Python gives a path or a list: None and the empty one
\* are false
Truthy(v) == v # None /\ v # <<>>

\* options.get("chunk_name"): a name that is absent is as good as the
\* empty name, both are false
chunk_name_of(options) == Get(options, "chunk_name", "")

\* the archive files of Backups/Chunks, each with its content: the file
\* name is made of a name, the timestamp and the suffix after it; all the
\* calls of a run fall into the same second
ArchiveFile(name, suffix) == name \o "_ts" \o suffix \o ".txt"

\* Path(target_path).stem, for names without a dot
stem(target_path) == target_path[Len(target_path)]

chunk_create(options, write_fails) ==
    LET chunk_name == chunk_name_of(options)
        content == Get(options, "content", None)
        name == IF chunk_name = "" THEN TimestampName ELSE chunk_name
        stored == Store(memory_chunks, name, content)
    IN  IF content = None
        THEN Outcome(Payload("error"), memory_chunks, fs, chunk_files)
        ELSE IF write_fails
        THEN Outcome(Payload("error"), stored, fs, chunk_files)
        ELSE Outcome([kind |-> "success", chunk_name |-> name],
                     stored, fs, Store(chunk_files, ArchiveFile(name, ""), content))

chunk_update(options, write_fails) ==
    LET chunk_name == chunk_name_of(options)
        content == Get(options, "content", None)
        stored == Store(memory_chunks, chunk_name, content)
    IN  IF chunk_name = "" \/ content = None \/ chunk_name \notin DOMAIN memory_chunks
        THEN Outcome(Payload("error"), memory_chunks, fs, chunk_files)
        ELSE IF write_fails
        THEN Outcome(Payload("error"), stored, fs, chunk_files)
        ELSE Outcome(Payload("success"), stored, fs,
                     Store(chunk_files, ArchiveFile(chunk_name, "_updated"), content))

chunk_list ==
    Outcome([kind |-> "chunks", chunks |-> DOMAIN memory_chunks],
            memory_chunks, fs, chunk_files)

chunk_merge(options, write_fails) ==
    LET target_path == Get(options, "path", None)
        chunk_names == Get(options, "chunk_names", <<>>)
        merge_mode == Get(options, "mode", "create")
        missing_chunks == {k \in 1..Len(chunk_names) : chunk_names[k] \notin DOMAIN memory_chunks}
        made == mkdir_parents(fs, Parent(target_path))
        mode == IF merge_mode = "create" THEN "w" ELSE "a"
        written == open_write(made.tree, target_path, mode, Joined(memory_chunks, chunk_names))
    IN  IF ~Truthy(target_path) \/ chunk_names = <<>> \/ missing_chunks # {}
        THEN Outcome(Payload("error"), memory_chunks, fs, chunk_files)
        ELSE IF ~made.ok
        THEN Outcome(Payload("error"), memory_chunks, fs, chunk_files)
        ELSE IF ~written.ok
        THEN Outcome(Payload("error"), memory_chunks, made.tree, chunk_files)
        ELSE IF write_fails
        THEN Outcome(Payload("error"), memory_chunks, written.tree, chunk_files)
        ELSE Outcome([kind |-> "success", path |-> target_path],
                     memory_chunks, written.tree,
                     Store(chunk_files, ArchiveFile("merged_" \o stem(target_path), ""),
                           Joined(memory_chunks, chunk_names)))

\* a chunk_clear that would leave the chunks in the store
chunk_clear_kept ==
    Outcome(Payload("success"), memory_chunks, fs, chunk_files)

chunk_clear ==
    Outcome(Payload("success"), NoChunks, fs, chunk_files)

_handle_chunk_operations(operation, options, write_fails) ==
    CASE operation = "create" -> chunk_create(options, write_fails)
      [] operation = "update" -> chunk_update(options, write_fails)
      [] operation = "list" -> chunk_list
      [] operation = "merge" -> chunk_merge(options, write_fails)
      [] operation = "clear" -> chunk_clear
      [] OTHER -> Outcome(Payload("error"), memory_chunks, fs, chunk_files)

(***************************************************************************)
(* _handle_backup_operations: the directory Backups holds one directory    *)
(* for each backup, a copy of the codebase directory, next to the          *)
(* directory Chunks of the chunk operations.  A backup name is a sequence  *)
(* of characters.                                                          *)
(***************************************************************************)
\* the name of the directory Backups/Chunks
ChunksName == <<"C", "h", "u", "n", "k", "s">>

\* f"backup_{timestamp}", the name made when no name is given
TimestampBackup == <<"b", "a", "c", "k", "u", "p", "_", "t", "s">>

\* the characters that \w matches
IsWord(c) ==
    c \in { "a", "b", "c", "h", "k", "n", "p", "s", "t", "u", "v", "C", "_",
            "0", "1" }

\* re.sub(r'[^\w\-\.]', '_', backup_name)
sanitized(backup_name) ==
    [k \in 1..Len(backup_name) |->
        IF IsWord(backup_name[k]) \/ backup_name[k] \in {"-", "."}
        THEN backup_name[k] ELSE "_"]

\* the directories that backup_root.iterdir() gives
backup_dirs == DOMAIN backups \cup (IF chunks_dir THEN {ChunksName} ELSE {})

\* (backup_root / backup_name).exists(): the empty name is Backups itself
backup_exists(backup_name) == backup_name = <<>> \/ backup_name \in backup_dirs

\* what the directory Backups/name holds: the copy that backup_create made,
\* and in Chunks the archive files of the chunk operations
backup_tree(name) ==
    LET copied == IF name \in DOMAIN backups THEN backups[name] ELSE EmptyTree
        archives == IF name = ChunksName THEN DOMAIN chunk_files ELSE {}
    IN  [p \in DOMAIN copied \cup {<<f>> : f \in archives} |->
            IF Len(p) = 1 /\ p[1] \in archives
            THEN FileNode(chunk_files[p[1]])
            ELSE copied[p]]

\* what a backup operation leaves behind
BackupOutcome(r, tree, copies, chunks) ==
    [result |-> r, fs |-> tree, backups |-> copies, chunks_dir |-> chunks]

backup_list ==
    IF ~backup_root
    THEN BackupOutcome([kind |-> "backups", backups |-> {}, count |-> 0, listed |-> FALSE],
                       fs, backups, chunks_dir)
    ELSE BackupOutcome([kind |-> "backups", backups |-> backup_dirs,
                        count |-> Cardinality(backup_dirs), listed |-> TRUE],
                       fs, backups, chunks_dir)

\* shutil.copytree(source_path, backup_path) copies the whole codebase
\* directory
backup_create(options) ==
    LET given == Get(options, "name", None)
        backup_name == IF given = None THEN TimestampBackup ELSE sanitized(given)
    IN  IF backup_exists(backup_name)
        THEN BackupOutcome(Payload("error"), fs, backups, chunks_dir)
        ELSE BackupOutcome([kind |-> "success", backup_name |-> backup_name],
                           fs, Store(backups, backup_name, fs),
                           chunks_dir \/ backup_name = ChunksName)

\* a restore that would copy the items of the backup into the codebase
\* directory without emptying it first
backup_restore_over(options) ==
    LET backup_name == Get(options, "name", None)
        kept == backup_tree(backup_name)
    IN  IF ~Truthy(backup_name)
        THEN BackupOutcome(Payload("error"), fs, backups, chunks_dir)
        ELSE IF backup_name \notin backup_dirs
        THEN BackupOutcome(Payload("error"), fs, backups, chunks_dir)
        ELSE BackupOutcome([kind |-> "success", backup_name |-> backup_name],
                           [p \in DOMAIN kept \cup DOMAIN fs |->
                               IF p \in DOMAIN kept /\ kept[p].kind # "absent"
                               THEN kept[p] ELSE fs[p]],
                           backups, chunks_dir)

\* the codebase directory is emptied and the items of the backup are
\* copied into it
backup_restore(options) ==
    LET backup_name == Get(options, "name", None)
    IN  IF ~Truthy(backup_name)
        THEN BackupOutcome(Payload("error"), fs, backups, chunks_dir)
        ELSE IF backup_name \notin backup_dirs
        THEN BackupOutcome(Payload("error"), fs, backups, chunks_dir)
        ELSE BackupOutcome([kind |-> "success", backup_name |-> backup_name],
                           backup_tree(backup_name), backups, chunks_dir)

_handle_backup_operations(operation, options) ==
    CASE operation = "list" -> backup_list
      [] operation = "create" -> backup_create(options)
      [] operation = "restore" -> backup_restore(options)
      [] OTHER -> BackupOutcome(Payload("error"), fs, backups, chunks_dir)

(***************************************************************************)
(* _handle_file_operations and _handle_edit_operations: functions of the   *)
(* tree, the path and the options to the payload returned and the tree     *)
(* left behind.                                                            *)
(***************************************************************************)
Done(r, tree) == [result |-> r, fs |-> tree]

\* q is p or lies below p
Under(p, q) == Len(q) >= Len(p) /\ SubSeq(q, 1, Len(p)) = p

Children(t, p) == {q \in DOMAIN t : Parent(q) = p /\ t[q].kind # "absent"}

\* os.remove, shutil.rmtree: p and everything below it is gone
Removed(t, p) == [q \in DOMAIN t |-> IF Under(p, q) THEN AbsentNode ELSE t[q]]

\* the path below dst that corresponds to q below src
Relocated(src, dst, q) == dst \o SubSeq(q, Len(src) + 1, Len(q))

\* the tree t with the nodes that from holds at and below src put at and
\* below dst
Graft(t, from, src, dst) ==
    [q \in DOMAIN t |->
        IF Under(dst, q)
        THEN IF Relocated(dst, src, q) \in DOMAIN from
             THEN from[Relocated(dst, src, q)]
             ELSE AbsentNode
        ELSE t[q]]

\* content.splitlines(True): the lines with their line ends
RECURSIVE splitlines(_)
splitlines(content) ==
    IF content = <<>> THEN <<>>
    ELSE IF \E k \in 1..Len(content) : content[k] = "\n"
    THEN LET k == CHOOSE k \in 1..Len(content) :
                     /\ content[k] = "\n"
                     /\ \A j \in 1..(k - 1) : content[j] # "\n"
         IN  <<SubSeq(content, 1, k)>> \o splitlines(SubSeq(content, k + 1, Len(content)))
    ELSE <<content>>

\* an index of a slice as Python clips it to 0..len
SliceIndex(i, len) == IF i < 0 THEN Max(0, i + len) ELSE Min(i, len)

\* seq[lo:hi]
Slice(seq, lo, hi) ==
    SubSeq(seq, SliceIndex(lo, Len(seq)) + 1, SliceIndex(hi, Len(seq)))

\* "".join(seqs)
RECURSIVE Concat(_)
Concat(seqs) == IF seqs = <<>> THEN <<>> ELSE Head(seqs) \o Concat(Tail(seqs))

structured_lines(filtered_lines, first) ==
    [i \in 1..Len(filtered_lines) |->
        [lineNo |-> first + (i - 1), content |-> filtered_lines[i]]]

\* end_idx = end_line if end_line is not None else start_idx + 1
default_end_idx(options, first_idx) ==
    IF "end_line" \in DOMAIN options THEN options.end_line ELSE first_idx + 1

\* an option that is absent is None
file_read(t, path, options) ==
    LET given == Get(options, "format", "text")
        filtering == "start_line" \in DOMAIN options
        start_line == options.start_line
        format == IF filtering /\ given = "text" THEN "lines" ELSE given
        content == t[path].content
        lns == splitlines(content)
        first_idx == Max(0, start_line - 1)
        last_idx == default_end_idx(options, first_idx)
        filtered_lines == Slice(lns, first_idx, last_idx)
    IN  IF ~Exists(t, path) THEN Done(Payload("error"), t)
        ELSE IF ~IsFile(t, path) THEN Done(Payload("error"), t)
        ELSE IF filtering
        THEN IF format = "lines"
             THEN Done([kind |-> "lines",
                        lines |-> structured_lines(filtered_lines, start_line),
                        count |-> Len(filtered_lines)], t)
             ELSE Done([kind |-> "content",
                        content |-> Concat(filtered_lines),
                        count |-> count(Concat(filtered_lines), "\n") + 1], t)
        ELSE IF format = "lines"
             THEN Done([kind |-> "lines",
                        lines |-> structured_lines(lns, 1),
                        count |-> Len(lns)], t)
             ELSE Done([kind |-> "content",
                        content |-> content,
                        count |-> count(content, "\n") + 1], t)

\* write and append: mode 'w' and 'a'
file_write(t, path, options, mode) ==
    LET content == Get(options, "content", None)
        made == mkdir_parents(t, Parent(path))
        written == open_write(made.tree, path, mode, content)
    IN  IF content = None THEN Done(Payload("error"), t)
        ELSE IF ~made.ok THEN Done(Payload("error"), t)
        ELSE IF ~written.ok THEN Done(Payload("error"), made.tree)
        ELSE Done(Payload("success"), written.tree)

file_delete(t, path) ==
    IF ~Exists(t, path) THEN Done(Payload("error"), t)
    ELSE IF IsFile(t, path) THEN Done(Payload("success"), Removed(t, path))
    ELSE Done(Payload("error"), t)

file_mkdir(t, path) ==
    IF mkdir_parents(t, path).ok
    THEN Done(Payload("success"), mkdir_parents(t, path).tree)
    ELSE Done(Payload("error"), t)

file_rmdir(t, path, options) ==
    IF ~Exists(t, path) THEN Done(Payload("error"), t)
    ELSE IF ~IsDir(t, path) THEN Done(Payload("error"), t)
    ELSE IF Get(options, "recursive", FALSE) \/ Children(t, path) = {}
    THEN Done(Payload("success"), Removed(t, path))
    ELSE Done(Payload("error"), t)

\* where src lands: in dst when dst is a directory, at dst otherwise
real_dst_of(t, src, dst) ==
    IF IsDir(t, dst) /\ src # dst THEN Append(dst, src[Len(src)]) ELSE dst

\* shutil.move(src, dst): into dst when dst is a directory, onto dst
\* otherwise; a directory moves neither into itself nor onto a file
shutil_move(t, src, dst) ==
    LET into == IsDir(t, dst) /\ src # dst
        real_dst == real_dst_of(t, src, dst)
    IN  IF src = dst THEN [ok |-> TRUE, tree |-> t]
        ELSE IF into /\ Exists(t, real_dst) THEN [ok |-> FALSE, tree |-> t]
        ELSE IF IsDir(t, src) /\ (Under(src, real_dst) \/ IsFile(t, real_dst))
        THEN [ok |-> FALSE, tree |-> t]
        ELSE [ok |-> TRUE, tree |-> Graft(Removed(t, src), t, src, real_dst)]

\* shutil.copytree(src, dst) of a directory, shutil.copy2(src, dst) of a file
shutil_copy(t, src, dst) ==
    LET real_dst == real_dst_of(t, src, dst)
    IN  IF IsDir(t, src)
        THEN IF Exists(t, dst)
             THEN [ok |-> FALSE, tree |-> t]
             ELSE [ok |-> TRUE, tree |-> Graft(t, t, src, dst)]
        ELSE IF real_dst = src \/ IsDir(t, real_dst)
             THEN [ok |-> FALSE, tree |-> t]
             ELSE [ok |-> TRUE, tree |-> [t EXCEPT ![real_dst] = t[src]]]

\* if dest_path.exists() and not overwrite
destination_taken_file(t, destination, overwrite) ==
    IsFile(t, destination) /\ ~overwrite

destination_taken(t, destination, overwrite) ==
    Exists(t, destination) /\ ~overwrite

\* move and copy share their checks; transfer is shutil_move or shutil_copy
file_transfer(t, path, options, operation) ==
    LET destination == Get(options, "destination", None)
        overwrite == Get(options, "overwrite", FALSE)
        made == mkdir_parents(t, Parent(destination))
        moved == IF operation = "move"
                 THEN shutil_move(made.tree, path, destination)
                 ELSE shutil_copy(made.tree, path, destination)
    IN  IF ~Truthy(destination) THEN Done(Payload("error"), t)
        ELSE IF ~Exists(t, path) THEN Done(Payload("error"), t)
        ELSE IF destination_taken(t, destination, overwrite) THEN Done(Payload("error"), t)
        ELSE IF ~made.ok THEN Done(Payload("error"), t)
        ELSE IF ~moved.ok THEN Done(Payload("error"), made.tree)
        ELSE Done(Payload("success"), moved.tree)

file_move(t, path, options) == file_transfer(t, path, options, "move")

file_copy(t, path, options) == file_transfer(t, path, options, "copy")

\* a path of None is refused; with the empty path full_path is not bound
\* and the first use of it raises inside the try block
_handle_file_operations(operation, t, path, options) ==
    IF path = None THEN Done(Payload("error"), t)
    ELSE IF path = <<>> THEN Done(Payload("error"), t)
    ELSE CASE operation = "read" -> file_read(t, path, options)
           [] operation = "write" -> file_write(t, path, options, "w")
           [] operation = "append" -> file_write(t, path, options, "a")
           [] operation = "delete" -> file_delete(t, path)
           [] operation = "mkdir" -> file_mkdir(t, path)
           [] operation = "rmdir" -> file_rmdir(t, path, options)
           [] operation = "move" -> file_move(t, path, options)
           [] operation = "copy" -> file_copy(t, path, options)
           [] OTHER -> Done(Payload("error"), t)

\* text.find(sub, start): the first position from start on, or -1
find(text, sub, start) ==
    LET at == {k \in start..(Len(text) - Len(sub)) :
                 SubSeq(text, k + 1, k + Len(sub)) = sub}
    IN  IF at = {} THEN -1 ELSE CHOOSE k \in at : \A j \in at : k <= j

\* the loop that looks for the occurrence asked for
RECURSIVE find_occurrence(_, _, _, _)
find_occurrence(text, find_text, occurrence, start_pos) ==
    IF occurrence <= 0 THEN start_pos
    ELSE IF find(text, find_text, start_pos + 1) = -1 THEN -1
    ELSE find_occurrence(text, find_text, occurrence - 1,
                         find(text, find_text, start_pos + 1))

\* dmp.patch_apply(dmp.patch_make(text, target), text): the patches made
\* from a text give the target when applied to that text
patched(text, target) == target

\* one operation of the list applied to the content
apply_operation(modified_content, op) ==
    LET mode == Get(op, "mode", "")
        start_pos == find_occurrence(modified_content, op.find,
                                     Get(op, "occurrence", 1), -1)
        insert_pos == start_pos + Len(op.find)
    IN  IF mode = "replace" /\ {"find", "replace"} \subseteq DOMAIN op
        THEN IF start_pos # -1
             THEN patched(modified_content,
                          SubSeq(modified_content, 1, start_pos) \o op.replace
                          \o SubSeq(modified_content, insert_pos + 1, Len(modified_content)))
             ELSE modified_content
        ELSE IF mode = "insert_after" /\ {"find", "content"} \subseteq DOMAIN op
        THEN IF start_pos # -1
             THEN patched(modified_content,
                          SubSeq(modified_content, 1, insert_pos) \o op.content
                          \o SubSeq(modified_content, insert_pos + 1, Len(modified_content)))
             ELSE modified_content
        ELSE IF mode = "insert_before" /\ {"find", "content"} \subseteq DOMAIN op
        THEN IF start_pos # -1
             THEN patched(modified_content,
                          SubSeq(modified_content, 1, start_pos) \o op.content
                          \o SubSeq(modified_content, start_pos + 1, Len(modified_content)))
             ELSE modified_content
        ELSE IF mode = "append" /\ "content" \in DOMAIN op
        THEN IF modified_content # <<>> /\ ~endswith(modified_content, "\n")
             THEN patched(modified_content, modified_content \o <<"\n">> \o op.content)
             ELSE patched(modified_content, modified_content \o op.content)
        ELSE IF mode = "prepend" /\ "content" \in DOMAIN op
        THEN IF op.content # <<>> /\ ~endswith(op.content, "\n")
             THEN patched(modified_content, op.content \o <<"\n">> \o modified_content)
             ELSE patched(modified_content, op.content \o modified_content)
        ELSE modified_content

RECURSIVE apply_operations(_, _)
apply_operations(content, operations) ==
    IF operations = <<>> THEN content
    ELSE apply_operations(apply_operation(content, Head(operations)), Tail(operations))

\* if new_content is not None: the whole new content replaces the file
\* whatever operations are listed
edit_replaces_file_if_true(new_content) == Truthy(new_content)

edit_replaces_file(new_content) == new_content # None

_handle_edit_operations(t, path, options) ==
    LET operations == Get(options, "operations", <<>>)
        new_content == Get(options, "new_content", None)
        made == mkdir_parents(t, Parent(path))
        written == open_write(made.tree, path, "w", new_content)
    IN  IF path = None THEN Done(Payload("error"), t)
        ELSE IF edit_replaces_file(new_content)
        THEN IF ~made.ok THEN Done(Payload("error"), t)
             ELSE IF ~written.ok THEN Done(Payload("error"), made.tree)
             ELSE Done(Payload("success"), written.tree)
        ELSE IF ~Exists(t, path) THEN Done(Payload("error"), t)
        ELSE IF ~IsFile(t, path) THEN Done(Payload("error"), t)
        ELSE Done(Payload("success"),
                  [t EXCEPT ![path] =
                      FileNode(apply_operations(t[path].content, operations))])

(***************************************************************************)
(* _handle_search_operations: the walk over the directories, the loop over *)
(* the files of a directory and the loop over the lines of a file, one     *)
(* step of a loop at a time.                                               *)
(***************************************************************************)
\* max_results and max_display_results when the options leave them out
DefaultMaxResults == 100
DefaultMaxDisplay == 5

\* MAX_RESULT_SIZE, and the size of the snippet of a block that is too large
MAX_RESULT_SIZE == 99000
snippet_size == 500

search_term_of(options) == Get(options, "search_term", <<>>)
file_pattern_of(options) == Get(options, "file_pattern", "**/*")
case_sensitive_of(options) == Get(options, "case_sensitive", FALSE)
max_results_of(options) == Get(options, "max_results", DefaultMaxResults)
max_display_blocks_of(options) == Get(options, "max_display_results", DefaultMaxDisplay)

\* the name ends with the characters of suffix
name_endswith(name, suffix) ==
    Len(name) >= Len(suffix)
    /\ SubSeq(name, Len(name) - Len(suffix) + 1, Len(name)) = suffix

\* fnmatch(rel_path, file_pattern) for the patterns of the model: a '*'
\* stands for any characters, the '/' of a path among them
fnmatch(root, name, file_pattern) ==
    CASE file_pattern = "**/*" -> root # <<>>
      [] file_pattern = "*" -> TRUE
      [] file_pattern = "*.py" -> name_endswith(name, <<".", "p", "y">>)

\* line.rstrip('\r\n')
RECURSIVE rstrip_eol(_)
rstrip_eol(line) ==
    IF line # <<>> /\ line[Len(line)] \in {"\r", "\n"}
    THEN rstrip_eol(SubSeq(line, 1, Len(line) - 1))
    ELSE line

\* the test of a line against the search term
line_matches(line, search_term, case_sensitive) ==
    IF case_sensitive
    THEN contains(search_term, line)
    ELSE contains(lower(search_term), lower(line))

match_position(line, search_term, case_sensitive) ==
    IF case_sensitive
    THEN find(line, search_term, 0)
    ELSE find(lower(line), lower(search_term), 0)

\* "".join(l.rstrip('\r\n') + '\n' for l in block_lines)
block_content_of(block_lines) ==
    Concat([k \in 1..Len(block_lines) |-> rstrip_eol(block_lines[k]) \o <<"\n">>])

\* the entry recorded for a match on line i of the file
match_info(root, name, lns, i, lang, options) ==
    LET block == IF lang = "indentation"
                 THEN find_indentation_block(lns, i)
                 ELSE find_brace_block(lns, i)
        block_content == block_content_of(SubSeq(lns, block[1] + 1, block[2] + 1))
        large == Len(block_content) * 10 > MAX_RESULT_SIZE
    IN  [ lineNumber |-> i + 1,
          matchLine |-> rstrip_eol(lns[i + 1]),
          file |-> [root |-> root, name |-> name],
          matchPosition |-> match_position(lns[i + 1], search_term_of(options),
                                           case_sensitive_of(options)),
          blockStart |-> block[1] + 1,
          blockEnd |-> block[2] + 1,
          language |-> lang,
          blockLines |-> block[2] - block[1] + 1,
          blockContent |-> IF large
                           THEN SubSeq(block_content, 1, snippet_size) \o <<"...">>
                           ELSE block_content,
          truncated |-> large ]

\* if total_matches >= max_results: break
cap_reached_beyond(total, max) == total > max

cap_reached(total, max) == total >= max

\* truncated = len(all_blocks) > max_display_blocks
is_truncated_from(recorded, max_display) == recorded >= max_display

is_truncated(recorded, max_display) == recorded > max_display

(***************************************************************************)
(* Inputs: file names and file contents.                                   *)
(***************************************************************************)
PyFile == <<"a", ".", "p", "y">>
JsFile == <<"a", ".", "j", "s">>

\* lines of a brace-delimited file
BraceLines ==
    { <<"x", "\n">>,
      <<"{", "\n">>,
      <<"}", "\n">>,
      <<"}", " ", "{", "\n">>,
      <<"d", "e", "f", " ", "{", "\n">>,
      <<"c", "l", "a", "s", "s", " ", "\n">> }

\* lines of an indentation-delimited file
IndentLines ==
    { <<"\n">>,
      <<"x", "\n">>,
      <<"x", ":", "\n">>,
      <<" ", "x", "\n">>,
      <<" ", "x", ":", "\n">>,
      <<" ", " ", "x", "\n">> }

FileNames ==
    { PyFile, JsFile,
      <<"a", ".", "P", "Y">>,
      <<"a", ".", "P", "y">>,
      <<"a", ".", "p", "y", "x">>,
      <<"a", ".", "p", "y", "w">>,
      <<"a", ".", "y", "m", "l">>,
      <<"a", ".", "Y", "A", "M", "L">>,
      <<"a", ".", "y", "a", "m", "l">>,
      <<"a", ".", "c">>,
      <<"a", ".", "t", "x", "t">>,
      <<"a", ".", "p", "y", "c">>,
      <<"a", ".", "p">>,
      <<"a", ".", "y">>,
      <<"a", ".", "p", "y", ".", "j", "s">>,
      <<"a", ".", "j", "s", ".", "p", "y">>,
      <<"a", ".", "p", "y", ".">>,
      <<"a">>,
      <<"p", "y">>,
      <<".", "p", "y">>,
      <<".", ".", "p", "y">>,
      <<".", "a", ".", "p", "y">> }

(***************************************************************************)
(* The search loop's step on a matching line (lines 974, 983-1006).        *)
(***************************************************************************)
\* an empty codebase directory, no chunk, no directory Backups/Chunks
InitStore ==
    /\ fs = EmptyTree
    /\ memory_chunks = NoChunks
    /\ chunks_dir = FALSE
    /\ chunk_files = NoChunks
    /\ backup_root = FALSE
    /\ backups = NoBackups

\* no call yet
InitCall ==
    /\ call = [operation |-> "none"]
    /\ result = Payload("none")
    /\ calls = 0

\* no search under way
InitNoSearch ==
    /\ walk = <<>>
    /\ dir_idx = 0
    /\ file_idx = 0
    /\ line_index = 0
    /\ all_blocks = <<>>
    /\ total_matches = 0
    /\ files_checked = 0
    /\ files_with_matches = 0
    /\ file_has_matches = FALSE

\* no file under search
InitExtract ==
    /\ filename = <<>>
    /\ lines = <<>>
    /\ match_line_index = -1
    /\ lang_type = "none"
    /\ start_idx = -1
    /\ end_idx = -1

InitWith(names, contents) ==
    /\ filename \in names
    /\ lines \in contents
    /\ match_line_index \in 0..(Len(lines) - 1)
    /\ lang_type = "none"
    /\ start_idx = -1
    /\ end_idx = -1
    /\ pc = "scan"
    /\ InitStore
    /\ InitCall
    /\ InitNoSearch

\* an indentation-delimited file
InitIndent == InitWith({PyFile}, SeqsUpTo(IndentLines, MaxLines))

\* a brace-delimited file
InitBrace == InitWith({JsFile}, SeqsUpTo(BraceLines, MaxLines))

Init == InitIndent \/ InitBrace

InitLang == InitWith(FileNames, SeqsUpTo(BraceLines \cup IndentLines, MaxLangLines))

MatchIndentation ==
    /\ pc = "scan"
    /\ detect_language(filename) = "indentation"
    /\ lang_type' = detect_language(filename)
    /\ LET block == find_indentation_block(lines, match_line_index)
       IN  start_idx' = block[1] /\ end_idx' = block[2]
    /\ pc' = "find_indentation_block"
    /\ UNCHANGED <<filename, lines, match_line_index, storeVars, callVars, searchVars>>

MatchBrace ==
    /\ pc = "scan"
    /\ detect_language(filename) # "indentation"
    /\ lang_type' = detect_language(filename)
    /\ LET block == find_brace_block(lines, match_line_index)
       IN  start_idx' = block[1] /\ end_idx' = block[2]
    /\ pc' = "find_brace_block"
    /\ UNCHANGED <<filename, lines, match_line_index, storeVars, callVars, searchVars>>

Next == MatchIndentation \/ MatchBrace

Spec == Init /\ [][Next]_vars

SpecLang == InitLang /\ [][Next]_vars

\* the search of a brace-delimited file
SpecBrace == InitBrace /\ [][MatchBrace]_vars

\* the search of an indentation-delimited file
SpecIndent == InitIndent /\ [][MatchIndentation]_vars

(***************************************************************************)
(* codebase_browser, chunk operations (lines 249-253, 259-409).            *)
(***************************************************************************)
CreateOptions ==
    {[chunk_name |-> n, content |-> c] : n \in ChunkNames, c \in ChunkContents}
    \cup {[content |-> <<"x">>], [chunk_name |-> "a"]}

UpdateOptions ==
    {[chunk_name |-> n, content |-> c] : n \in ChunkNames, c \in ChunkContents}
    \cup {[content |-> <<"x">>], [chunk_name |-> "a"]}

NoOptions == [k \in {} |-> <<>>]

MergeTargets == { <<"a">>, <<"b", "a">> }

MergeNames == { <<>>, <<"a", "b">>, <<"b", "a">>, <<"a", "a">> }

\* the path parameter and the options of the calls of chunk_merge
MergeCalls ==
    {<<None, [chunk_names |-> ns, path |-> p]>> : ns \in MergeNames, p \in MergeTargets}
    \cup {<<None, [chunk_names |-> ns, path |-> p, mode |-> "append"]>> :
            ns \in MergeNames, p \in MergeTargets}
    \cup {<<p, [chunk_names |-> ns]>> : ns \in {<<"a">>, <<"a", "b">>}, p \in {<<"a">>}}
    \cup {<<p, [chunk_names |-> ns, mode |-> "append"]>> :
            ns \in {<<"a">>, <<"a", "b">>}, p \in {<<"a">>}}
    \cup {<<None, [chunk_names |-> <<"a">>]>>, <<None, [path |-> <<"a">>]>>}

\* operation.replace("chunk_", "")
WithoutChunkPrefix(operation) ==
    CASE operation = "chunk_create" -> "create"
      [] operation = "chunk_update" -> "update"
      [] operation = "chunk_list" -> "list"
      [] operation = "chunk_merge" -> "merge"
      [] operation = "chunk_clear" -> "clear"

\* codebase_browser on a chunk operation: the handler is given the options
\* only, not the path; it makes the directory Backups/Chunks when it is
\* missing, outside its try block, so a failure there leaves the call by an
\* exception
codebase_browser_chunk(operation, path, options, mkdir_fails, write_fails) ==
    /\ calls' = calls + 1
    /\ call' = [operation |-> operation, path |-> path, options |-> options,
                mkdir_fails |-> mkdir_fails, write_fails |-> write_fails]
    /\ IF mkdir_fails
       THEN /\ result' = Payload("exception")
            /\ UNCHANGED storeVars
       ELSE LET out == _handle_chunk_operations(WithoutChunkPrefix(operation),
                                                options, write_fails)
            IN  /\ result' = out.result
                /\ memory_chunks' = out.memory_chunks
                /\ fs' = out.fs
                /\ chunk_files' = out.chunk_files
                /\ chunks_dir' = TRUE
                /\ backup_root' = TRUE
                /\ backups' = backups
    /\ UNCHANGED <<extractVars, searchVars, pc>>

\* the creation of a directory that exists cannot fail (exist_ok=True)
MkdirOutcomes == IF chunks_dir THEN {FALSE} ELSE BOOLEAN

Serving == pc = "serve" /\ calls < MaxCalls

ChunkCreate ==
    \E options \in CreateOptions, mkdir_fails \in MkdirOutcomes, write_fails \in BOOLEAN :
        /\ Serving
        /\ codebase_browser_chunk("chunk_create", None, options, mkdir_fails, write_fails)

ChunkUpdate ==
    \E options \in UpdateOptions, mkdir_fails \in MkdirOutcomes, write_fails \in BOOLEAN :
        /\ Serving
        /\ codebase_browser_chunk("chunk_update", None, options, mkdir_fails, write_fails)

ChunkList ==
    \E mkdir_fails \in MkdirOutcomes :
        /\ Serving
        /\ codebase_browser_chunk("chunk_list", None, NoOptions, mkdir_fails, FALSE)

ChunkMerge ==
    \E c \in MergeCalls, mkdir_fails \in MkdirOutcomes, write_fails \in BOOLEAN :
        /\ Serving
        /\ codebase_browser_chunk("chunk_merge", c[1], c[2], mkdir_fails, write_fails)

ChunkClear ==
    \E mkdir_fails \in MkdirOutcomes :
        /\ Serving
        /\ codebase_browser_chunk("chunk_clear", None, NoOptions, mkdir_fails, FALSE)

\* the archive files that the calls of chunk_create have written for the
\* chunks of the store d
Archived(d) ==
    [f \in {ArchiveFile(n, "") : n \in DOMAIN d} |->
        d[CHOOSE n \in DOMAIN d : ArchiveFile(n, "") = f]]

\* the stores the server holds after no call, one and two calls of
\* chunk_create, with the archive files those calls wrote
InitialStores ==
    { NoChunks,
      Store(NoChunks, "a", <<"x">>),
      Store(Store(NoChunks, "a", <<"x">>), "b", <<"y">>) }

\* the codebase directory empty, or holding the file b
InitialTrees == { EmptyTree, [EmptyTree EXCEPT ![<<"b">>] = FileNode(<<"z">>)] }

\* the server waiting for calls
InitChunks ==
    /\ InitExtract
    /\ InitCall
    /\ InitNoSearch
    /\ fs \in InitialTrees
    /\ memory_chunks \in InitialStores
    /\ chunks_dir = (memory_chunks # NoChunks)
    /\ chunk_files = Archived(memory_chunks)
    /\ backup_root = chunks_dir
    /\ backups = NoBackups
    /\ pc = "serve"

NextChunks == ChunkCreate \/ ChunkUpdate \/ ChunkList \/ ChunkMerge \/ ChunkClear

SpecChunks == InitChunks /\ [][NextChunks]_vars

(***************************************************************************)
(* codebase_browser, file and edit operations (lines 223-235): one call on *)
(* a codebase directory.                                                   *)
(***************************************************************************)
\* the contents of the files: up to MaxFileLines lines x, y, x, .., the
\* last one with or without its line end
TextOf(n, closed) ==
    [i \in 1..(2 * n - (IF closed \/ n = 0 THEN 0 ELSE 1)) |->
        IF i % 2 = 0 THEN "\n" ELSE IF i % 4 = 1 THEN "x" ELSE "y"]

FileTexts == {TextOf(n, closed) : n \in 0..MaxFileLines, closed \in BOOLEAN}

TopNodes == {AbsentNode, DirNode} \cup {FileNode(c) : c \in FileTexts}

NestedNodes == {AbsentNode, DirNode, FileNode(<<"z">>)}

LeafNodes == {AbsentNode, FileNode(<<"z">>)}

\* the codebase directories of the calls: a is anything, b and what lies
\* in a and b is absent, a directory or one file, b/b is absent
FileTrees ==
    {t \in [AllPaths -> TopNodes \cup NestedNodes] :
        /\ WellFormed(t)
        /\ t[<<"a">>] \in TopNodes
        /\ t[<<"b">>] \in NestedNodes
        /\ t[<<"a", "a">>] \in NestedNodes
        /\ t[<<"a", "b">>] \in LeafNodes
        /\ t[<<"b", "a">>] \in LeafNodes
        /\ t[<<"b", "b">>] = AbsentNode}

FilePaths == AllPaths \cup {None, <<>>}

ReadPaths == {None, <<>>, <<"a">>, <<"b">>, <<"a", "a">>}

LineNumbers == 0..(MaxFileLines + 1)

ReadOptions ==
    {NoOptions, [format |-> "text"], [format |-> "lines"]}
    \cup {[start_line |-> s] : s \in LineNumbers}
    \cup {[start_line |-> s, format |-> "raw"] : s \in LineNumbers}
    \cup {[start_line |-> s, end_line |-> e] : s \in LineNumbers, e \in LineNumbers}

ContentOptions == {NoOptions, [content |-> <<"w">>]}

RmdirOptions == {NoOptions, [recursive |-> TRUE]}

TransferOptions ==
    {NoOptions}
    \cup {[destination |-> d] : d \in AllPaths \cup {<<>>}}
    \cup {[destination |-> d, overwrite |-> o] : d \in AllPaths \cup {<<>>}, o \in BOOLEAN}

EditOperations ==
    { <<[mode |-> "append", content |-> <<"w">>]>>,
      <<[mode |-> "prepend", content |-> <<"w">>]>>,
      <<[mode |-> "replace", find |-> <<"x">>, replace |-> <<"v">>]>>,
      <<[mode |-> "insert_after", find |-> <<"\n">>, content |-> <<"w">>, occurrence |-> 2]>>,
      <<[mode |-> "insert_before", find |-> <<"y">>, content |-> <<"w">>]>>,
      <<[mode |-> "append", content |-> <<"w">>],
        [mode |-> "replace", find |-> <<"w">>, replace |-> <<>>]>> }

NewContents == { <<>>, <<"n">> }

EditOptions ==
    {NoOptions}
    \cup {[new_content |-> c] : c \in NewContents}
    \cup {[operations |-> l] : l \in EditOperations}
    \cup {[new_content |-> c, operations |-> l] : c \in NewContents, l \in EditOperations}

\* what a move or a copy puts somewhere stays within the paths of the model
TransferFits(t, path, options) ==
    (/\ path \in AllPaths
     /\ "destination" \in DOMAIN options
     /\ options.destination \in AllPaths)
    => \A q \in AllPaths :
          (Under(path, q) /\ Exists(t, q))
          => Relocated(path, real_dst_of(t, path, options.destination), q) \in AllPaths

FileServing == pc = "serve" /\ calls = 0

\* codebase_browser on a file operation or on edit
codebase_browser_file(operation, path, options) ==
    LET out == IF operation = "edit"
               THEN _handle_edit_operations(fs, path, options)
               ELSE _handle_file_operations(operation, fs, path, options)
    IN  /\ calls' = calls + 1
        /\ call' = [operation |-> operation, path |-> path, options |-> options]
        /\ result' = out.result
        /\ fs' = out.fs
        /\ UNCHANGED <<memory_chunks, chunks_dir, chunk_files, backup_root, backups,
                       extractVars, searchVars, pc>>

FileRead ==
    \E path \in ReadPaths, options \in ReadOptions :
        /\ FileServing
        /\ codebase_browser_file("read", path, options)

FileWrite ==
    \E path \in FilePaths, options \in ContentOptions :
        /\ FileServing
        /\ codebase_browser_file("write", path, options)

FileAppend ==
    \E path \in FilePaths, options \in ContentOptions :
        /\ FileServing
        /\ codebase_browser_file("append", path, options)

FileDelete ==
    \E path \in FilePaths :
        /\ FileServing
        /\ codebase_browser_file("delete", path, NoOptions)

FileMkdir ==
    \E path \in FilePaths :
        /\ FileServing
        /\ codebase_browser_file("mkdir", path, NoOptions)

FileRmdir ==
    \E path \in FilePaths, options \in RmdirOptions :
        /\ FileServing
        /\ codebase_browser_file("rmdir", path, options)

FileMove ==
    \E path \in FilePaths, options \in TransferOptions :
        /\ FileServing
        /\ TransferFits(fs, path, options)
        /\ codebase_browser_file("move", path, options)

FileCopy ==
    \E path \in FilePaths, options \in TransferOptions :
        /\ FileServing
        /\ TransferFits(fs, path, options)
        /\ codebase_browser_file("copy", path, options)

Edit ==
    \E path \in FilePaths, options \in EditOptions :
        /\ FileServing
        /\ codebase_browser_file("edit", path, options)

InitFiles ==
    /\ InitExtract
    /\ InitCall
    /\ InitNoSearch
    /\ fs \in FileTrees
    /\ memory_chunks = NoChunks
    /\ chunks_dir = FALSE
    /\ chunk_files = NoChunks
    /\ backup_root = FALSE
    /\ backups = NoBackups
    /\ pc = "serve"

NextFiles ==
    \/ FileRead \/ FileWrite \/ FileAppend \/ FileDelete \/ FileMkdir
    \/ FileRmdir \/ FileMove \/ FileCopy \/ Edit

SpecFiles == InitFiles /\ [][NextFiles]_vars

(***************************************************************************)
(* codebase_browser over a session: backup operations (lines 243-247,      *)
(* 1060-1201) between file, edit and chunk operations, up to               *)
(* MaxSessionCalls calls.                                                  *)
(***************************************************************************)
\* operation.replace("backup_", "")
WithoutBackupPrefix(operation) ==
    CASE operation = "backup_create" -> "create"
      [] operation = "backup_list" -> "list"
      [] operation = "backup_restore" -> "restore"

\* codebase_browser on a backup operation: the handler makes the directory
\* Backups when it is missing, inside its try block, except for list
codebase_browser_backup(operation, options, mkdir_fails) ==
    /\ calls' = calls + 1
    /\ call' = [operation |-> operation, path |-> None, options |-> options,
                mkdir_fails |-> mkdir_fails]
    /\ IF ~backup_root /\ operation # "backup_list" /\ mkdir_fails
       THEN /\ result' = Payload("error")
            /\ UNCHANGED storeVars
       ELSE LET out == _handle_backup_operations(WithoutBackupPrefix(operation), options)
            IN  /\ result' = out.result
                /\ fs' = out.fs
                /\ backups' = out.backups
                /\ chunks_dir' = out.chunks_dir
                /\ backup_root' = (backup_root \/ operation # "backup_list")
                /\ UNCHANGED <<memory_chunks, chunk_files>>
    /\ UNCHANGED <<extractVars, searchVars, pc>>

\* the creation of Backups can fail only when Backups is missing
BackupMkdirOutcomes == IF backup_root THEN {FALSE} ELSE BOOLEAN

InSession == pc = "serve" /\ calls < MaxSessionCalls

\* the names given to backup_create: none, one with a character to replace,
\* the name of the directory of the chunk operations, the empty name
CreateNames == { None, <<"v", " ">>, ChunksName, <<>> }

\* the names given to backup_restore
RestoreNames == { None, <<"v", " ">>, <<"v", "_">>, TimestampBackup, ChunksName }

BackupCreate ==
    \E name \in CreateNames, mkdir_fails \in BackupMkdirOutcomes :
        /\ InSession
        /\ codebase_browser_backup("backup_create",
              IF name = None THEN NoOptions ELSE [name |-> name], mkdir_fails)

BackupList ==
    /\ InSession
    /\ codebase_browser_backup("backup_list", NoOptions, FALSE)

BackupRestore ==
    \E name \in RestoreNames, mkdir_fails \in BackupMkdirOutcomes :
        /\ InSession
        /\ codebase_browser_backup("backup_restore",
              IF name = None THEN NoOptions ELSE [name |-> name], mkdir_fails)

\* the file and edit operations of a session, on the paths a, a/a and b
TreeWrite ==
    \E path \in { <<"a">>, <<"a", "a">> } :
        /\ InSession
        /\ codebase_browser_file("write", path, [content |-> <<"w">>])

TreeAppend ==
    /\ InSession
    /\ codebase_browser_file("append", <<"a">>, [content |-> <<"w">>])

TreeDelete ==
    /\ InSession
    /\ codebase_browser_file("delete", <<"a">>, NoOptions)

TreeMkdir ==
    /\ InSession
    /\ codebase_browser_file("mkdir", <<"a">>, NoOptions)

TreeRmdir ==
    /\ InSession
    /\ codebase_browser_file("rmdir", <<"a">>, [recursive |-> TRUE])

TreeMove ==
    /\ InSession
    /\ codebase_browser_file("move", <<"a">>, [destination |-> <<"b">>])

TreeCopy ==
    /\ InSession
    /\ codebase_browser_file("copy", <<"a">>, [destination |-> <<"b">>])

TreeEdit ==
    /\ InSession
    /\ codebase_browser_file("edit", <<"a">>, [new_content |-> <<"n">>])

\* the chunk operations of a session
TreeMerge ==
    \E mode \in {"create", "append"}, mkdir_fails \in MkdirOutcomes, write_fails \in BOOLEAN :
        /\ InSession
        /\ codebase_browser_chunk("chunk_merge", None,
              [path |-> <<"a">>, chunk_names |-> <<"a">>, mode |-> mode],
              mkdir_fails, write_fails)

StageCreate ==
    \E content \in ChunkContents, mkdir_fails \in MkdirOutcomes, write_fails \in BOOLEAN :
        /\ InSession
        /\ codebase_browser_chunk("chunk_create", None,
              [chunk_name |-> "a", content |-> content], mkdir_fails, write_fails)

StageUpdate ==
    \E mkdir_fails \in MkdirOutcomes, write_fails \in BOOLEAN :
        /\ InSession
        /\ codebase_browser_chunk("chunk_update", None,
              [chunk_name |-> "a", content |-> <<"y">>], mkdir_fails, write_fails)

StageList ==
    \E mkdir_fails \in MkdirOutcomes :
        /\ InSession
        /\ codebase_browser_chunk("chunk_list", None, NoOptions, mkdir_fails, FALSE)

StageClear ==
    \E mkdir_fails \in MkdirOutcomes :
        /\ InSession
        /\ codebase_browser_chunk("chunk_clear", None, NoOptions, mkdir_fails, FALSE)

\* the codebase directory at the start of a session: empty, the file a, or
\* the directory a with the file a/a
SessionTrees ==
    { EmptyTree,
      [EmptyTree EXCEPT ![<<"a">>] = FileNode(<<"x">>)],
      [EmptyTree EXCEPT ![<<"a">>] = DirNode, ![<<"a", "a">>] = FileNode(<<"z">>)] }

\* a server that has just started: no chunk, no directory Backups
InitBackups ==
    /\ InitExtract
    /\ InitCall
    /\ InitNoSearch
    /\ fs \in SessionTrees
    /\ memory_chunks = NoChunks
    /\ chunks_dir = FALSE
    /\ chunk_files = NoChunks
    /\ backup_root = FALSE
    /\ backups = NoBackups
    /\ pc = "serve"

NextBackups ==
    \/ BackupCreate \/ BackupList \/ BackupRestore
    \/ TreeWrite \/ TreeAppend \/ TreeDelete \/ TreeMkdir \/ TreeRmdir
    \/ TreeMove \/ TreeCopy \/ TreeEdit \/ TreeMerge
    \/ StageCreate \/ StageUpdate \/ StageList \/ StageClear

SpecBackups == InitBackups /\ [][NextBackups]_vars

\* a server that holds chunks and has made no backup yet, then backups,
\* restores and the operations that write to the codebase directory
InitRoundTrip ==
    /\ InitExtract
    /\ InitCall
    /\ InitNoSearch
    /\ fs \in SessionTrees
    /\ memory_chunks \in InitialStores
    /\ chunks_dir = (memory_chunks # NoChunks)
    /\ chunk_files = Archived(memory_chunks)
    /\ backup_root = chunks_dir
    /\ backups = NoBackups
    /\ pc = "serve"

NextRoundTrip ==
    \/ BackupCreate \/ BackupRestore
    \/ TreeWrite \/ TreeAppend \/ TreeDelete \/ TreeMkdir \/ TreeRmdir
    \/ TreeMove \/ TreeCopy \/ TreeEdit \/ TreeMerge

SpecRoundTrip == InitRoundTrip /\ [][NextRoundTrip]_vars

(***************************************************************************)
(* codebase_browser, search (lines 237-241, 801-1057): one search over a   *)
(* codebase directory of three files in two directories.                   *)
(***************************************************************************)
\* n lines x
Repeated(n) == [k \in 1..n |-> <<"x", "\n">>]

SearchTexts == {Repeated(n) : n \in 0..MaxSearchLines} \cup { << <<"y", "\n">>, <<"X", "\n">> >> }

SourceFile(name, lns, readable) == [name |-> name, lines |-> lns, readable |-> readable]

\* os.walk of the codebase directory: a.py and b.js in it, c.js in its
\* directory d; b.js may be a file that cannot be read or is too large
Walks ==
    { << [root |-> <<>>,
          files |-> << SourceFile(<<"a", ".", "p", "y">>, t1, TRUE),
                       SourceFile(<<"b", ".", "j", "s">>, t2, r2) >>],
         [root |-> <<"d">>,
          files |-> << SourceFile(<<"c", ".", "j", "s">>, t3, TRUE) >>] >> :
        t1 \in SearchTexts, t2 \in SearchTexts, t3 \in SearchTexts, r2 \in BOOLEAN }

Searches ==
    { <<<<"x">>, "*", FALSE>>, <<<<"X">>, "*", TRUE>>,
      <<<<"x">>, "**/*", FALSE>>, <<<<"x">>, "*.py", TRUE>> }

SearchOptions ==
    {[search_term |-> s[1], file_pattern |-> s[2], case_sensitive |-> s[3],
      max_results |-> r, max_display_results |-> d] :
        s \in Searches, r \in 0..MaxResults, d \in 0..MaxDisplay}
    \cup {[search_term |-> <<"x">>], [max_results |-> 0]}

\* the directory and the file the loops are at
CurrentDir == walk[dir_idx]
NextFile == CurrentDir.files[file_idx + 1]

Options == call.options

SearchBegin ==
    /\ pc = "begin"
    /\ IF search_term_of(Options) = <<>>
       THEN /\ result' = Payload("error")
            /\ calls' = calls + 1
            /\ pc' = "done"
       ELSE /\ pc' = "walk"
            /\ UNCHANGED <<result, calls>>
    /\ UNCHANGED <<extractVars, storeVars, searchVars, call>>

\* for root, _, files in os.walk(base_path)
EnterDirectory ==
    /\ pc = "walk"
    /\ dir_idx < Len(walk)
    /\ dir_idx' = dir_idx + 1
    /\ file_idx' = 0
    /\ pc' = "files"
    /\ UNCHANGED <<extractVars, storeVars, callVars, walk, line_index, all_blocks,
                   total_matches, files_checked, files_with_matches, file_has_matches>>

\* the files of the directory are exhausted
LeaveDirectory ==
    /\ pc = "files"
    /\ file_idx = Len(CurrentDir.files)
    /\ pc' = "walk"
    /\ UNCHANGED <<extractVars, storeVars, callVars, searchVars>>

\* if total_matches >= max_results: break
CapBreak ==
    /\ pc = "files"
    /\ file_idx < Len(CurrentDir.files)
    /\ cap_reached(total_matches, max_results_of(Options))
    /\ pc' = "walk"
    /\ UNCHANGED <<extractVars, storeVars, callVars, searchVars>>

TakeFile ==
    /\ pc = "files"
    /\ file_idx < Len(CurrentDir.files)
    /\ ~cap_reached(total_matches, max_results_of(Options))
    /\ file_idx' = file_idx + 1

\* if not fnmatch(rel_path, file_pattern): continue
SkipFile ==
    /\ TakeFile
    /\ ~fnmatch(CurrentDir.root, NextFile.name, file_pattern_of(Options))
    /\ UNCHANGED <<extractVars, storeVars, callVars, walk, dir_idx, line_index,
                   all_blocks, total_matches, files_checked, files_with_matches,
                   file_has_matches, pc>>

\* a file over 10 MB, or one whose reading raises: continue
SkipUnreadable ==
    /\ TakeFile
    /\ fnmatch(CurrentDir.root, NextFile.name, file_pattern_of(Options))
    /\ ~NextFile.readable
    /\ files_checked' = files_checked + 1
    /\ UNCHANGED <<extractVars, storeVars, callVars, walk, dir_idx, line_index,
                   all_blocks, total_matches, files_with_matches, file_has_matches, pc>>

OpenFile ==
    /\ TakeFile
    /\ fnmatch(CurrentDir.root, NextFile.name, file_pattern_of(Options))
    /\ NextFile.readable
    /\ files_checked' = files_checked + 1
    /\ filename' = NextFile.name
    /\ lang_type' = detect_language(NextFile.name)
    /\ lines' = NextFile.lines
    /\ file_has_matches' = FALSE
    /\ line_index' = 0
    /\ pc' = "lines"
    /\ UNCHANGED <<match_line_index, start_idx, end_idx, storeVars, callVars, walk,
                   dir_idx, all_blocks, total_matches, files_with_matches>>

\* a line without the search term
PassLine ==
    /\ pc = "lines"
    /\ line_index < Len(lines)
    /\ ~line_matches(lines[line_index + 1], search_term_of(Options),
                     case_sensitive_of(Options))
    /\ line_index' = line_index + 1
    /\ UNCHANGED <<extractVars, storeVars, callVars, walk, dir_idx, file_idx,
                   all_blocks, total_matches, files_checked, files_with_matches,
                   file_has_matches, pc>>

\* a line with the search term: its entry is recorded, and the loop over
\* the lines is left when the cap is reached
RecordMatch ==
    /\ pc = "lines"
    /\ line_index < Len(lines)
    /\ line_matches(lines[line_index + 1], search_term_of(Options),
                    case_sensitive_of(Options))
    /\ LET info == match_info(CurrentDir.root, filename, lines, line_index,
                              lang_type, Options)
       IN  /\ all_blocks' = Append(all_blocks, info)
           /\ match_line_index' = line_index
           /\ start_idx' = info.blockStart - 1
           /\ end_idx' = info.blockEnd - 1
    /\ total_matches' = total_matches + 1
    /\ IF cap_reached(total_matches + 1, max_results_of(Options))
       THEN /\ files_with_matches' = files_with_matches + 1
            /\ file_has_matches' = TRUE
            /\ pc' = "files"
            /\ UNCHANGED line_index
       ELSE /\ file_has_matches' = TRUE
            /\ line_index' = line_index + 1
            /\ UNCHANGED <<files_with_matches, pc>>
    /\ UNCHANGED <<filename, lines, lang_type, storeVars, callVars, walk, dir_idx,
                   file_idx, files_checked>>

\* the lines of the file are exhausted
CloseFile ==
    /\ pc = "lines"
    /\ line_index = Len(lines)
    /\ files_with_matches' = files_with_matches + (IF file_has_matches THEN 1 ELSE 0)
    /\ pc' = "files"
    /\ UNCHANGED <<extractVars, storeVars, callVars, walk, dir_idx, file_idx,
                   line_index, all_blocks, total_matches, files_checked,
                   file_has_matches>>

\* the walk is exhausted: the blocks to display are selected
SearchFinish ==
    /\ pc = "walk"
    /\ dir_idx = Len(walk)
    /\ LET displayed_blocks == Slice(all_blocks, 0, max_display_blocks_of(Options))
       IN  result' = [ kind |-> "blocks",
                       blocks |-> displayed_blocks,
                       totalMatches |-> total_matches,
                       displayedMatches |-> Len(displayed_blocks),
                       filesWithMatches |-> files_with_matches,
                       filesChecked |-> files_checked,
                       truncated |-> is_truncated(Len(all_blocks),
                                                  max_display_blocks_of(Options)) ]
    /\ calls' = calls + 1
    /\ pc' = "done"
    /\ UNCHANGED <<extractVars, storeVars, searchVars, call>>

InitSearch ==
    /\ InitExtract
    /\ InitStore
    /\ walk \in Walks
    /\ call \in {[operation |-> "search", path |-> None, options |-> o] : o \in SearchOptions}
    /\ result = Payload("none")
    /\ calls = 0
    /\ dir_idx = 0
    /\ file_idx = 0
    /\ line_index = 0
    /\ all_blocks = <<>>
    /\ total_matches = 0
    /\ files_checked = 0
    /\ files_with_matches = 0
    /\ file_has_matches = FALSE
    /\ pc = "begin"

NextSearch ==
    \/ SearchBegin \/ EnterDirectory \/ LeaveDirectory \/ CapBreak \/ SkipFile
    \/ SkipUnreadable \/ OpenFile \/ PassLine \/ RecordMatch \/ CloseFile
    \/ SearchFinish

SpecSearch == InitSearch /\ [][NextSearch]_vars

(***************************************************************************)
(* Vocabulary of the properties, stated on the characters of the lines and *)
(* independently of the scanning loops above.                              *)
(***************************************************************************)
InBrace == pc = "find_brace_block"
InIndent == pc = "find_indentation_block"
LastLine == Len(lines) - 1
LineAt(i) == lines[i + 1]

Greatest(S) == CHOOSE x \in S : \A y \in S : y <= x
Least(S) == CHOOSE x \in S : \A y \in S : x <= y

\* the positions <<line, column>> of the characters of lines a..b
Positions(a, b) == UNION {{<<i, k>> : k \in 1..Len(LineAt(i))} : i \in a..b}

CharAt(p) == LineAt(p[1])[p[2]]

\* number of occurrences of character c on lines a..b

\* number of occurrences of character c on a line, from column k on
RECURSIVE Occurrences(_, _, _)
Occurrences(line, c, k) ==
    IF k > Len(line) THEN 0
    ELSE (IF line[k] = c THEN 1 ELSE 0) + Occurrences(line, c, k + 1)

RECURSIVE Braces(_, _, _)
Braces(c, a, b) ==
    IF a > b THEN 0 ELSE Occurrences(LineAt(a), c, 1) + Braces(c, a + 1, b)

HasSubstring(line, sub) ==
    \E k \in 1..(Len(line) - Len(sub) + 1) :
        \A d \in 1..Len(sub) : line[k + d - 1] = sub[d]

\* the substrings that mark a declaration
Keywords ==
    { <<"f", "u", "n", "c", "t", "i", "o", "n", " ">>,
      <<"c", "l", "a", "s", "s", " ">>,
      <<"d", "e", "f", " ">>,
      <<"=", " ", "f", "u", "n", "c", "t", "i", "o", "n">> }

HasKeyword(i) == \E kw \in Keywords : HasSubstring(LineAt(i), kw)

\* the excess of '{' over '}' on a line, from column k on
RECURSIVE LineExcess(_, _)
LineExcess(line, k) ==
    IF k > Len(line) THEN 0
    ELSE (IF line[k] = "{" THEN 1 ELSE IF line[k] = "}" THEN -1 ELSE 0)
         + LineExcess(line, k + 1)

\* the excess of '{' over '}' on lines a..b
RECURSIVE Excess(_, _)
Excess(a, b) == IF a > b THEN 0 ELSE LineExcess(LineAt(a), 1) + Excess(a + 1, b)

\* more '{' than '}' on lines i..m
Imbalance(i) == Excess(i, match_line_index) > 0

\* the lines at or above the match that qualify as the opening of the block
Openers == {i \in 0..match_line_index : HasKeyword(i) \/ Imbalance(i)}

\* the lines below the match where the '}' counted from the match line on
\* outnumber the '{'
Closers == {i \in (match_line_index + 1)..LastLine : Excess(match_line_index, i) < 0}

WindowStart == IF match_line_index - 3 > 0 THEN match_line_index - 3 ELSE 0
WindowEnd == IF match_line_index + 3 < LastLine THEN match_line_index + 3 ELSE LastLine

\* C1: both finders return a range inside the file that contains the match
\* line: 0 <= start_line <= match index <= end_line <= len(lines) - 1.
C1_RangeAroundMatch ==
    pc # "scan" =>
        /\ 0 <= start_idx
        /\ start_idx <= match_line_index
        /\ match_line_index <= end_idx
        /\ end_idx <= LastLine

C1_Witness ==
    /\ InIndent
    /\ \E k \in 1..Len(LineAt(match_line_index)) : LineAt(match_line_index)[k] = "x"
    /\ 0 < start_idx
    /\ start_idx < match_line_index
    /\ match_line_index = end_idx
    /\ end_idx < LastLine

\* C3: brace style, backward scan: when some line at or above the match has
\* a declaration keyword or an excess of '{' over '}' counted down to the
\* match, start_line is the nearest such line to the match.
C3_NearestOpener ==
    (InBrace /\ Openers # {}) => start_idx = Greatest(Openers)

\* a keyword line wins over an imbalance-only line further up
C3_Witness ==
    /\ InBrace
    /\ start_idx < match_line_index
    /\ HasKeyword(start_idx)
    /\ ~Imbalance(start_idx)
    /\ \E i \in 0..(start_idx - 1) : Imbalance(i) /\ ~HasKeyword(i)

\* C4: brace style, forward scan: when an opening was found, end_line is
\* the first line below the match where the '}' counted from the match line
\* on outnumber the '{'; without such a line it is min(len(lines)-1, m+3).
C4_FirstCloser ==
    (InBrace /\ Openers # {}) =>
        end_idx = IF Closers # {} THEN Least(Closers) ELSE WindowEnd

\* the braces of the match line take part in the count
C4_Witness ==
    /\ InBrace
    /\ Openers # {}
    /\ Braces("{", match_line_index, match_line_index) = 1
    /\ Closers # {}
    /\ end_idx > match_line_index + 1
    /\ Braces("}", match_line_index + 1, end_idx) = 2

\* C5: brace style, fallback: without a keyword line or an excess of '{'
\* at or above the match, the range is the window
\* (max(0, m-3), min(len(lines)-1, m+3)), whatever braces follow.
C5_FallbackWindow ==
    (InBrace /\ Openers = {}) =>
        (start_idx = WindowStart /\ end_idx = WindowEnd)

\* a '}' follows the match and does not end the range
C5_Witness ==
    /\ InBrace
    /\ Openers = {}
    /\ match_line_index < LastLine
    /\ Braces("}", match_line_index + 1, match_line_index + 1) = 1
    /\ end_idx > match_line_index + 1

\* a line of whitespace only
Blank(i) == \A k \in 1..Len(LineAt(i)) : LineAt(i)[k] \in {" ", "\n", "\t", "\r"}

\* number of whitespace characters before the first other character
LeadingSpace(i) ==
    Greatest({n \in 0..Len(LineAt(i)) :
                \A k \in 1..n : LineAt(i)[k] \in {" ", "\n", "\t", "\r"}})

\* the last character that is not whitespace is ':'
ColonLast(i) ==
    \E k \in 1..Len(LineAt(i)) :
        /\ LineAt(i)[k] = ":"
        /\ \A d \in (k + 1)..Len(LineAt(i)) : LineAt(i)[d] \in {" ", "\n", "\t", "\r"}

\* the non-blank lines at or above the match indented less than the match
Outer ==
    {i \in 0..match_line_index :
        ~Blank(i) /\ LeadingSpace(i) < LeadingSpace(match_line_index)}

\* C6: indentation style, backward scan: with i the nearest non-blank line
\* at or above the match indented strictly less than the match line, a line
\* i ending with ':' is start_line; without any such line start_line is
\* max(0, m-3); a blank start_line is never chosen by the scan (it can only
\* be the window's first line).
C6_NearestOuterColon ==
    InIndent =>
        /\ (Outer # {} /\ ColonLast(Greatest(Outer))) => start_idx = Greatest(Outer)
        /\ Outer = {} => start_idx = WindowStart
        /\ Blank(start_idx) => start_idx = WindowStart

\* the scan passes a blank line and a line of the match's indentation
C6_Witness ==
    /\ InIndent
    /\ Outer # {}
    /\ ColonLast(Greatest(Outer))
    /\ start_idx = Greatest(Outer)
    /\ start_idx # WindowStart
    /\ ~Blank(match_line_index)
    /\ \E i \in (start_idx + 1)..(match_line_index - 1) : Blank(i)
    /\ \E i \in (start_idx + 1)..(match_line_index - 1) :
           ~Blank(i) /\ LeadingSpace(i) = LeadingSpace(match_line_index)

\* the non-blank lines below the match indented no more than the line that
\* start_line names
Enders ==
    {j \in (match_line_index + 1)..LastLine :
        ~Blank(j) /\ LeadingSpace(j) <= LeadingSpace(start_idx)}

\* C8: indentation style, forward scan: block_indent being the indentation
\* of lines[start_line], end_line is the line before the first non-blank
\* line below the match indented <= block_indent, and min(len(lines)-1, m+3)
\* without such a line; blank lines do not stop the scan.
C8_EndBeforeOuter ==
    InIndent =>
        end_idx = IF Enders # {} THEN Least(Enders) - 1 ELSE WindowEnd

\* a blank line is passed before the line that ends the block
C8_Witness ==
    /\ InIndent
    /\ Enders # {}
    /\ end_idx = Least(Enders) - 1
    /\ end_idx > match_line_index
    /\ Blank(end_idx)
    /\ ~Blank(match_line_index)
    /\ LeadingSpace(start_idx) > 0

\* the lines the secondary probe is said to examine: the up-to-5 lines
\* before line i, line 0 included
Probed(i) ==
    {j \in (IF i - 5 > 0 THEN i - 5 ELSE 0)..(i - 1) : ColonLast(j)}

\* C7: indentation style, secondary probe: when the nearest non-blank
\* lower-indented line i does not end with ':', start_line is the nearest
\* line ending with ':' among i-1 .. max(0, i-5), and max(0, m-3) when
\* there is none.
C7_ProbeFiveBefore ==
    (InIndent /\ Outer # {} /\ ~ColonLast(Greatest(Outer))) =>
        start_idx = IF Probed(Greatest(Outer)) # {}
                    THEN Greatest(Probed(Greatest(Outer)))
                    ELSE WindowStart

\* C9: indentation style: the line that supplies block_indent, which is
\* the returned start_line, is never a blank line.
C9_ReferenceNotBlank ==
    InIndent => ~Blank(start_idx)

\* position p comes before position q in the text
Before(p, q) == p[1] < q[1] \/ (p[1] = q[1] /\ p[2] < q[2])

OpenPos == {p \in Positions(0, LastLine) : CharAt(p) = "{"}
ClosePos == {p \in Positions(0, LastLine) : CharAt(p) = "}"}

\* every '}' closes an earlier '{' and every '{' is closed
Balanced ==
    /\ Cardinality(OpenPos) = Cardinality(ClosePos)
    /\ \A c \in ClosePos :
          Cardinality({o \in OpenPos : Before(o, c)}) >
          Cardinality({d \in ClosePos : Before(d, c)})

\* the '}' that closes the '{' at position o
Partner(o) ==
    LET cands == {c \in ClosePos :
                    /\ Before(o, c)
                    /\ Cardinality({x \in OpenPos : Before(o, x) /\ Before(x, c)}) =
                       Cardinality({x \in ClosePos : Before(o, x) /\ Before(x, c)})}
    IN  CHOOSE c \in cands : \A d \in cands : d = c \/ Before(c, d)

\* the '{' of the brace pairs the match line lies strictly inside
Enclosing ==
    {o \in OpenPos : o[1] < match_line_index /\ Partner(o)[1] > match_line_index}

Innermost == CHOOSE o \in Enclosing : \A e \in Enclosing : e = o \/ Before(e, o)

\* C2 as stated: with balanced braces and the match line strictly inside a
\* brace pair, the range runs from the line of the innermost enclosing '{'
\* to the line of the '}' that closes it.
C2_SmallestEnclosing ==
    (InBrace /\ Balanced /\ Enclosing # {}) =>
        /\ start_idx = Innermost[1]
        /\ end_idx = Partner(Innermost)[1]

\* C2 amended: the same, provided the match line holds no brace, no line
\* from the innermost enclosing '{' to its '}' holds both a '{' and a '}',
\* and no line after the line of that '{' up to the match line holds a
\* declaration keyword.
C2_SmallestEnclosingPlain ==
    (/\ InBrace /\ Balanced /\ Enclosing # {}
     /\ Braces("{", match_line_index, match_line_index) = 0
     /\ Braces("}", match_line_index, match_line_index) = 0
     /\ \A i \in Innermost[1]..Partner(Innermost)[1] :
            Braces("{", i, i) = 0 \/ Braces("}", i, i) = 0
     /\ \A i \in (Innermost[1] + 1)..match_line_index : ~HasKeyword(i))
    =>
        /\ start_idx = Innermost[1]
        /\ end_idx = Partner(Innermost)[1]

\* a nested block with a closed sibling block above the match
C2_Witness ==
    /\ InBrace /\ Balanced /\ Enclosing # {}
    /\ Braces("{", match_line_index, match_line_index) = 0
    /\ Braces("}", match_line_index, match_line_index) = 0
    /\ \A i \in Innermost[1]..Partner(Innermost)[1] :
            Braces("{", i, i) = 0 \/ Braces("}", i, i) = 0
    /\ \A i \in (Innermost[1] + 1)..match_line_index : ~HasKeyword(i)
    /\ Braces("}", Innermost[1] + 1, match_line_index - 1) = 1
    /\ start_idx = Innermost[1]
    /\ end_idx = Partner(Innermost)[1]

\* the same letter, whatever the case
SameLetter(a, b) ==
    \/ a = b
    \/ {a, b} \in { {"p", "P"}, {"y", "Y"}, {"x", "X"}, {"w", "W"},
                    {"m", "M"}, {"l", "L"}, {"a", "A"} }

\* the extension of name (the text from its last dot on, when a character
\* other than a dot comes before that dot) is e, whatever the case
ExtensionIs(name, e) ==
    \E k \in 2..Len(name) :
        /\ name[k] = "."
        /\ \A d \in (k + 1)..Len(name) : name[d] # "."
        /\ \E j \in 1..(k - 1) : name[j] # "."
        /\ Len(name) - k + 1 = Len(e)
        /\ \A d \in 1..Len(e) : SameLetter(name[k + d - 1], e[d])

IndentationFile ==
    \E e \in { <<".", "p", "y">>, <<".", "p", "y", "x">>, <<".", "p", "y", "w">>,
               <<".", "y", "m", "l">>, <<".", "y", "a", "m", "l">> } :
        ExtensionIs(filename, e)

\* C10: detect_language answers 'indentation' exactly for the extensions
\* .py .pyx .pyw .yml .yaml in any case and 'braces' for every other name,
\* and the search applies the indentation finder exactly to the files
\* classified 'indentation', the brace finder to the others.
C10_Classifier ==
    pc # "scan" =>
        /\ lang_type \in {"indentation", "braces"}
        /\ lang_type = "indentation" <=> IndentationFile
        /\ InIndent <=> IndentationFile
        /\ InBrace <=> ~IndentationFile
        /\ <<start_idx, end_idx>> =
              IF IndentationFile
              THEN find_indentation_block(lines, match_line_index)
              ELSE find_brace_block(lines, match_line_index)

\* an upper-case extension, on a file where the two finders disagree
C10_Witness ==
    /\ InIndent
    /\ lang_type = "indentation"
    /\ \E k \in 1..Len(filename) : filename[k] \in {"P", "Y"}
    /\ find_indentation_block(lines, match_line_index) #
          find_brace_block(lines, match_line_index)

(***************************************************************************)
(* Vocabulary of the properties of the tool's operations.                  *)
(***************************************************************************)
ChunkOperations ==
    {"chunk_create", "chunk_update", "chunk_list", "chunk_merge", "chunk_clear"}

Called(operation) == call.operation = operation

Returned(kind) == result.kind = kind

\* a step of the file system failed in the last call
StepFailed == call.mkdir_fails \/ call.write_fails

\* C11: a call of a chunk operation in which the creation of Backups/Chunks
\* or a write of an archive file failed returned an error payload; it did
\* not leave by an exception.
C11_FailureIsErrorPayload ==
    (call.operation \in ChunkOperations /\ StepFailed) => Returned("error")

\* C12: a step of chunk_create that returns an error payload leaves the
\* chunk store as it was before the call.
C12_CreateErrorKeepsStore ==
    [][(call'.operation = "chunk_create" /\ result'.kind = "error")
          => memory_chunks' = memory_chunks]_vars

\* C13: a call of chunk_merge with the target as the path parameter and
\* options holding chunk_names of existing chunks, and at most a mode, in
\* which no step of the file system failed, returned success and the file
\* at the path holds the merged chunks.
C13_MergeByPathParameter ==
    [][(/\ call'.operation = "chunk_merge"
        /\ call'.path # None
        /\ DOMAIN call'.options \subseteq {"chunk_names", "mode"}
        /\ "chunk_names" \in DOMAIN call'.options
        /\ call'.options.chunk_names # <<>>
        /\ \A k \in 1..Len(call'.options.chunk_names) :
               call'.options.chunk_names[k] \in DOMAIN memory_chunks
        /\ ~call'.mkdir_fails /\ ~call'.write_fails
        /\ ~IsDir(fs, call'.path) /\ IsDir(fs, Parent(call'.path)))
          => (result'.kind = "success" /\ IsFile(fs', call'.path))]_vars

\* the options o with end_line given as e
WithEndLine(o, e) ==
    [k \in DOMAIN o \cup {"end_line"} |-> IF k = "end_line" THEN e ELSE o[k]]

\* C14: a read of a file with start_line = s >= 1 and no end_line returned
\* what the read with start_line = s and end_line = s + 1 returns.
C14_DefaultEndLine ==
    (/\ Called("read")
     /\ "start_line" \in DOMAIN call.options
     /\ "end_line" \notin DOMAIN call.options
     /\ call.options.start_line >= 1)
    => result = _handle_file_operations(
                    "read", fs, call.path,
                    WithEndLine(call.options, call.options.start_line + 1)).result

\* the path names a place for a file in t: it is in the codebase directory,
\* not a directory, and nothing above it is a file
FilePlace(t, p) ==
    /\ p \in AllPaths
    /\ ~IsDir(t, p)
    /\ \A q \in Prefixes(Parent(p)) : ~IsFile(t, q)

\* t and u differ at most at p and in directories made above p
SameExceptAbove(t, u, p) ==
    \A q \in AllPaths :
        \/ q = p
        \/ u[q] = t[q]
        \/ (q \in Prefixes(Parent(p)) /\ ~Exists(t, q) /\ IsDir(u, q))

\* C17: an edit with new_content leaves the file holding exactly
\* new_content, the file and the directories above it made when absent,
\* whatever operations are listed and nothing else changed; an edit without
\* new_content of a file that does not exist returns an error and changes
\* nothing.
C17_EditNewContent ==
    [][/\ (/\ call'.operation = "edit"
           /\ "new_content" \in DOMAIN call'.options
           /\ FilePlace(fs, call'.path))
          => /\ result'.kind = "success"
             /\ fs'[call'.path] = FileNode(call'.options.new_content)
             /\ \A q \in Prefixes(Parent(call'.path)) : IsDir(fs', q)
             /\ SameExceptAbove(fs, fs', call'.path)
       /\ (/\ call'.operation = "edit"
           /\ "new_content" \notin DOMAIN call'.options
           /\ call'.path \in AllPaths
           /\ ~Exists(fs, call'.path))
          => /\ result'.kind = "error"
             /\ fs' = fs]_vars

\* an edit with an empty new_content and operations listed has made the
\* file b/a, empty, in a directory b
C17_Witness ==
    /\ Called("edit")
    /\ {"new_content", "operations"} \subseteq DOMAIN call.options
    /\ call.options.new_content = <<>>
    /\ call.path = <<"b", "a">>
    /\ Returned("success")
    /\ fs[call.path] = FileNode(<<>>)

\* the last call is a move or a copy to a destination that is given and
\* not to be overwritten
KeepsDestination(c) ==
    /\ c.operation \in {"move", "copy"}
    /\ "destination" \in DOMAIN c.options
    /\ ("overwrite" \in DOMAIN c.options => ~c.options.overwrite)

\* C18: a move or a copy to a destination that exists, overwrite false or
\* not given, returns an error and leaves the tree, source and destination
\* with it, as it was.
C18_NoOverwrite ==
    [][(KeepsDestination(call') /\ Exists(fs, call'.options.destination))
          => (result'.kind = "error" /\ fs' = fs)]_vars

\* a move of the file a to the directory b, overwrite not given, has
\* returned an error
C18_Witness ==
    /\ Called("move")
    /\ KeepsDestination(call)
    /\ call.path = <<"a">>
    /\ call.options.destination = <<"b">>
    /\ IsFile(fs, <<"a">>) /\ IsDir(fs, <<"b">>) /\ ~Exists(fs, <<"b", "a">>)
    /\ Returned("error")

\* the cap on the matches and the cap on the blocks displayed of the search
Cap == max_results_of(call.options)
DisplayCap == max_display_blocks_of(call.options)

\* C15: the matches recorded never exceed max_results, the list of the
\* recorded matches does not grow once it holds max_results of them, in
\* whatever file and directory the search is, and totalMatches of the result
\* is at most max_results.
C15_MatchCap ==
    [][/\ total_matches' <= Cap
       /\ Len(all_blocks') = total_matches'
       /\ (Len(all_blocks) >= Cap => all_blocks' = all_blocks)
       /\ (result'.kind = "blocks" => result'.totalMatches <= Cap)]_vars

\* the line holds the search term, letter case ignored unless the search is
\* case sensitive
Hit(line) ==
    IF case_sensitive_of(call.options)
    THEN HasSubstring(line, search_term_of(call.options))
    ELSE HasSubstring(lower(line), lower(search_term_of(call.options)))

\* the numbers of the lines of the file that hold the term, ascending
RECURSIVE HitsFrom(_, _)
HitsFrom(lns, k) ==
    IF k > Len(lns) THEN <<>>
    ELSE (IF Hit(lns[k]) THEN <<k>> ELSE <<>>) \o HitsFrom(lns, k + 1)

\* the file is read by the search
Searched(d, f) ==
    f.readable /\ fnmatch(d.root, f.name, file_pattern_of(call.options))

FileHits(d, f) ==
    IF Searched(d, f)
    THEN [k \in 1..Len(HitsFrom(f.lines, 1)) |->
             [root |-> d.root, name |-> f.name, lineNumber |-> HitsFrom(f.lines, 1)[k]]]
    ELSE <<>>

RECURSIVE DirHits(_, _)
DirHits(d, k) ==
    IF k > Len(d.files) THEN <<>> ELSE FileHits(d, d.files[k]) \o DirHits(d, k + 1)

\* the matching lines of the walk in the order of their discovery
RECURSIVE Discovered(_)
Discovered(k) ==
    IF k > Len(walk) THEN <<>> ELSE DirHits(walk[k], 1) \o Discovered(k + 1)

\* the place of a recorded match
PlaceOf(b) == [root |-> b.file.root, name |-> b.file.name, lineNumber |-> b.lineNumber]

\* a search with more matching lines than max_results > 0 has ended with
\* totalMatches = max_results, the last matching line lying in directory d
C15_Witness ==
    /\ Returned("blocks")
    /\ Cap > 0
    /\ result.totalMatches = Cap
    /\ Len(Discovered(1)) > Cap
    /\ Discovered(1)[Len(Discovered(1))].root = <<"d">>

\* C16: at the end of a search the recorded matches are the matching lines
\* in the order of their discovery, one entry a line, up to max_results of
\* them; the blocks returned are the first min(totalMatches,
\* max_display_results) of the recorded matches in that order, and truncated
\* says whether totalMatches > max_display_results.
C16_DisplayOrder ==
    Returned("blocks") =>
        /\ [k \in 1..Len(all_blocks) |-> PlaceOf(all_blocks[k])]
             = SubSeq(Discovered(1), 1, Min(Len(Discovered(1)), Cap))
        /\ result.totalMatches = Len(all_blocks)
        /\ result.blocks = SubSeq(all_blocks, 1, Min(result.totalMatches, DisplayCap))
        /\ result.truncated <=> (result.totalMatches > DisplayCap)

\* two blocks are displayed for two lines of one file with the same block
\* range, and more matches were recorded than displayed
C16_Witness ==
    /\ Returned("blocks")
    /\ Len(result.blocks) = 2
    /\ result.blocks[1].file = result.blocks[2].file
    /\ result.blocks[1].lineNumber < result.blocks[2].lineNumber
    /\ result.blocks[1].blockStart = result.blocks[2].blockStart
    /\ result.blocks[1].blockEnd = result.blocks[2].blockEnd
    /\ result.truncated

\* the match line declares a block and opens it: a keyword, one '{', no '}'
OpensOwnBlock ==
    /\ HasKeyword(match_line_index)
    /\ Braces("{", match_line_index, match_line_index) = 1
    /\ Braces("}", match_line_index, match_line_index) = 0

\* the lines below the match at which the '{' and '}' counted from the
\* match line on are level again for the first time
OwnClosers ==
    {k \in (match_line_index + 1)..LastLine :
        /\ Excess(match_line_index, k) = 0
        /\ \A j \in match_line_index..(k - 1) : Excess(match_line_index, j) > 0}

\* below the match line no '}' lacks its '{' and, the block of the match
\* line apart, no '{' lacks its '}'
FollowingBalanced ==
    /\ \A j \in match_line_index..LastLine : Excess(match_line_index, j) >= 0
    /\ Excess(match_line_index, LastLine) = 0

\* C20: brace style, the match line holds a declaration keyword and the
\* '{' of its block and the block's '}' is on a later line k: the range
\* returned is (m, k).
C20_OwnClosingBrace ==
    (InBrace /\ OpensOwnBlock /\ OwnClosers # {} /\ FollowingBalanced)
    => (start_idx = match_line_index /\ end_idx = Least(OwnClosers))


(***************************************************************************)
(* The chunk store over sequences of calls.                                *)
(***************************************************************************)
\* no step of the file system fails in the call
Clean(c) == c.operation \in ChunkOperations /\ ~c.mkdir_fails /\ ~c.write_fails

\* the name a call of chunk_create stores under
CreatedName(o) ==
    IF "chunk_name" \in DOMAIN o /\ o.chunk_name # "" THEN o.chunk_name ELSE TimestampName

\* chunks v is chunks d with content c under name n and nothing else changed
Holds(d, v, n, c) ==
    /\ DOMAIN v = DOMAIN d \cup {n}
    /\ v[n] = c
    /\ \A m \in DOMAIN d \ {n} : v[m] = d[m]

\* the store after the call c, made on the store d
StoreAfter(c, d, v) ==
    LET o == c.options
    IN  CASE c.operation = "chunk_create" ->
               IF "content" \in DOMAIN o THEN Holds(d, v, CreatedName(o), o.content)
               ELSE v = d
          [] c.operation = "chunk_update" ->
               IF "chunk_name" \in DOMAIN o /\ o.chunk_name \in DOMAIN d /\ "content" \in DOMAIN o
               THEN Holds(d, v, o.chunk_name, o.content) /\ DOMAIN v = DOMAIN d
               ELSE v = d
          [] c.operation \in {"chunk_list", "chunk_merge"} -> v = d
          [] c.operation = "chunk_clear" -> DOMAIN v = {}

\* C21: in a call of a chunk operation in which no step of the file system
\* fails, chunk_create puts its content under its name and keeps the other
\* chunks, chunk_update replaces the content of a chunk of the store and
\* returns an error and changes nothing for a name not in the store,
\* chunk_list returns exactly the names of the store, chunk_list and
\* chunk_merge change no chunk, and chunk_clear empties the store; so the
\* names listed are the names created since the last chunk_clear, each with
\* the content of its latest chunk_create or chunk_update.
C21_ChunkStore ==
    [][Clean(call') =>
          /\ StoreAfter(call', memory_chunks, memory_chunks')
          /\ (call'.operation = "chunk_list" =>
                (result'.kind = "chunks" /\ result'.chunks = DOMAIN memory_chunks))
          /\ ((/\ call'.operation = "chunk_update"
               /\ "chunk_name" \in DOMAIN call'.options
               /\ call'.options.chunk_name \notin DOMAIN memory_chunks)
                 => result'.kind = "error")]_vars

\* a second chunk is created next to the first, which keeps its content, and
\* chunk_update has put a new content under an old name
C21_Witness ==
    /\ calls = 2
    /\ Called("chunk_update") /\ Returned("success")
    /\ Clean(call)
    /\ DOMAIN memory_chunks = {"a", "b"}
    /\ memory_chunks["a"] # memory_chunks["b"]
    /\ memory_chunks[call.options.chunk_name] = call.options.content

\* the options of a chunk_merge that fails its validation on the store d:
\* no path, no name, or a name that is not in the store
Rejected(o, d) ==
    \/ "path" \notin DOMAIN o
    \/ "chunk_names" \notin DOMAIN o
    \/ o.chunk_names = <<>>
    \/ \E k \in 1..Len(o.chunk_names) : o.chunk_names[k] \notin DOMAIN d

\* C22: a call of chunk_merge whose options name no path, no chunk or a
\* chunk that is not in the store returns an error payload and leaves the
\* codebase directory and the chunk store as they were.
C22_MergeValidates ==
    [][(call'.operation = "chunk_merge" /\ Rejected(call'.options, memory_chunks))
          => (result'.kind = "error" /\ fs' = fs /\ memory_chunks' = memory_chunks)]_vars

\* the contents of the chunks names[1], .., names[k] of the store d, one
\* after the other
RECURSIVE InOrder(_, _, _)
InOrder(d, names, k) ==
    IF k = 0 THEN <<>> ELSE InOrder(d, names, k - 1) \o d[names[k]]

\* the content of the file at p, nothing when there is no file
ContentAt(t, p) == IF IsFile(t, p) THEN t[p].content ELSE <<>>

\* C23: after a call of chunk_merge that returns success the target file
\* holds the contents of the chunks in the order of chunk_names, a name
\* listed twice written twice: alone when the mode is create (or absent),
\* after the file's previous content when the mode is append; and the
\* chunk store is as it was.
C23_MergeContent ==
    [][(call'.operation = "chunk_merge" /\ result'.kind = "success") =>
          LET o == call'.options
              merged == InOrder(memory_chunks, o.chunk_names, Len(o.chunk_names))
          IN  /\ IsFile(fs', o.path)
              /\ ("mode" \notin DOMAIN o \/ o.mode = "create")
                    => fs'[o.path].content = merged
              /\ ("mode" \in DOMAIN o /\ o.mode = "append")
                    => fs'[o.path].content = ContentAt(fs, o.path) \o merged
              /\ memory_chunks' = memory_chunks]_vars

\* two chunks appended, the second before the first, to a file that a merge
\* had written
C23_Witness ==
    /\ calls = 2
    /\ Called("chunk_merge") /\ Returned("success")
    /\ "mode" \in DOMAIN call.options /\ call.options.mode = "append"
    /\ call.options.chunk_names = <<"b", "a">>
    /\ IsFile(fs, call.options.path)
    /\ Len(fs[call.options.path].content) > 2
    /\ memory_chunks["a"] # memory_chunks["b"]

(***************************************************************************)
(* Backups over sessions.                                                  *)
(***************************************************************************)
\* the operations that write to the codebase directory
WritingOperations ==
    {"write", "append", "delete", "move", "copy", "mkdir", "rmdir", "edit", "chunk_merge"}

\* what the directory Backups/b holds when the copies made by backup_create
\* are copies and the archive files of Backups/Chunks are archives
Kept(copies, archives, b) ==
    [p \in DOMAIN copies[b]
           \cup (IF b = ChunksName THEN {<<f>> : f \in DOMAIN archives} ELSE {}) |->
        IF b = ChunksName /\ Len(p) = 1 /\ p[1] \in DOMAIN archives
        THEN [kind |-> "file", content |-> archives[p[1]]]
        ELSE copies[b][p]]

\* the name a call of backup_create asks for, when it needs no replacement
\* of characters
AskedName(o) == IF "name" \in DOMAIN o THEN o.name ELSE TimestampBackup

\* C24: a backup_create that returns success with the name B makes
\* Backups/B a copy of the codebase directory as it is; the operations
\* write, append, delete, move, copy, mkdir, rmdir, edit and chunk_merge
\* and the other backup operations leave what Backups/B holds as it is; a
\* backup_restore of B that returns success leaves the codebase directory
\* with exactly what Backups/B holds; so the restore gives back the files,
\* directories and contents of the time of the backup.  A backup_create
\* that asks for the name of a backup returns an error and leaves every
\* backup as it is.
C24_RoundTrip ==
    [][/\ (call'.operation = "backup_create" /\ result'.kind = "success")
            => /\ result'.backup_name \notin DOMAIN backups
               /\ result'.backup_name \in DOMAIN backups'
               /\ Kept(backups', chunk_files', result'.backup_name) = fs
       /\ \A b \in DOMAIN backups :
            /\ b \in DOMAIN backups'
            /\ Kept(backups', chunk_files', b) = Kept(backups, chunk_files, b)
       /\ (/\ call'.operation = "backup_restore"
           /\ result'.kind = "success"
           /\ call'.options.name \in DOMAIN backups)
            => fs' = Kept(backups, chunk_files, call'.options.name)
       /\ (/\ call'.operation = "backup_create"
           /\ AskedName(call'.options) \in DOMAIN backups)
            => (result'.kind = "error" /\ backups' = backups)]_vars

\* the fourth call has restored one of two backups that hold different
\* trees
C24_Witness ==
    /\ calls = 4
    /\ Called("backup_restore") /\ Returned("success")
    /\ call.options.name \in DOMAIN backups
    /\ fs = backups[call.options.name]
    /\ \E b \in DOMAIN backups : backups[b] # fs

\* C25: in a session that starts without the directory Backups, every name
\* that backup_list returns, and every name with which backup_restore
\* returns success, is the name of a backup that a successful backup_create
\* has made.
C25_OnlyBackupsListed ==
    /\ Called("backup_list") => result.backups \subseteq DOMAIN backups
    /\ (Called("backup_restore") /\ Returned("success"))
          => call.options.name \in DOMAIN backups
====
